---- MODULE Spec2Model ----
(***************************************************************************)
(* MCPClient (custom-mcp-client/src/mcpClient.js): a JSON-RPC 2.0 client   *)
(* over the stdio of a spawned child process.                              *)
(*                                                                         *)
(* The state is the client object's fields, the promises and timers its    *)
(* calls have created, the connect() calls in progress and the child       *)
(* processes it has spawned.  The child is the environment: it may write   *)
(* any line on stdout and any chunk on stderr, and exit, at any moment.    *)
(*                                                                         *)
(* A step is one callback of the event loop (a call of the public API, a   *)
(* stream or process event, a timer) together with the continuations of    *)
(* the awaits its settlements release, which run as microtasks before the  *)
(* next callback.  What a step puts out (promises settled, events emitted, *)
(* connect() calls completed, requests written, signals sent) is held in   *)
(* settled, emitted, returned, written and killed, together with the       *)
(* line or stderr chunk the step was called with (received, skipped,       *)
(* heard), until it has been observed (Observe), which happens before the  *)
(* next callback runs.                                                     *)
(*                                                                         *)
(* Elapsed time is not counted.  The armed timers are kept in the order    *)
(* they were armed, and a timer fires only when no timer armed before it   *)
(* with a delay no longer than its own is still armed.                     *)
(*                                                                         *)
(* DatabaseService (the service built on the client) holds one client,     *)
(* listens to its 'disconnected' event and awaits its promises: its        *)
(* listener and its continuations are part of the client's step that calls *)
(* or releases them.  Its specification is SpecService.                    *)
(*                                                                         *)
(* The API server (claude-agent-client/src/api.js) is modelled apart, by   *)
(* its sessions Map, the session objects, the queries in flight and the    *)
(* hourly expiry: SpecApi for the routes, SpecSweep for the sweep timer.   *)
(***************************************************************************)
EXTENDS Integers, Sequences, FiniteSets, TLC

\* ---------------------------------------------------------------- bounds
MaxCalls == 1           \* Spec: listTools/listResources/callTool/readResource calls by the application
MaxConnects == 2        \* SpecReconnect: connect() calls
MaxOfflineCalls == 1    \* SpecReconnect: callTool/readResource calls by the application
MaxQueries == 2         \* SpecApi: POST /query requests that reach the SDK
MaxTicks == 14          \* SpecSweep: the time that passes, in sweep intervals
MaxServiceCalls == 1    \* SpecService: calls of the service's methods after initialize()

\* ------------------------------------------------------ program constants
REQUEST_TIMEOUT_MS == 30000
STARTUP_TIMEOUT_MS == 10000

\* ----------------------------------------------------------------- values
Null == "null"                 \* JavaScript null (in an event's payload)
Undefined == "undefined"       \* JavaScript undefined / an absent field
NoProcess == 0                 \* this.serverProcess = null

\* result payloads a response may carry: a catalog (an object with tools
\* and resources), some other content, or an object that has an error
\* property, whose message is "boom"
ResultWithError == "result with error"
Results == {"catalog", "content", ResultWithError}
\* toolsResponse.tools || []  and  resourcesResponse.resources || []
ToolsOrEmpty(result) == IF result = "catalog" THEN <<"read_query", "write_query">> ELSE <<>>
ResourcesOrEmpty(result) == IF result = "catalog" THEN <<"schema">> ELSE <<>>

\* the error field of a response: absent (Undefined), null, or an object,
\* whose message field is absent (Undefined), empty or a text
ErrorObject == "error object"
ErrorMessages == {Undefined, "", "boom"}

\* a value is truthy: `if (v)`, `v || w`
Truthy(v) == v \notin {Undefined, Null, ""}

VARIABLES
    requestId,            \* this.requestId
    pendingRequests,      \* this.pendingRequests: id -> the promise (request number) of its {resolve, reject}
    serverProcess,        \* this.serverProcess: a process number, or NoProcess
    isConnected,          \* this.isConnected
    isInitialized,        \* this.isInitialized
    availableTools,       \* this.availableTools
    availableResources,   \* this.availableResources
    issued,               \* the id of every request built so far, in call order
    requests,             \* the sendRequest calls whose promise is pending or whose timer is armed,
                          \* by request number (the n-th call is request n)
    timers,               \* the armed timers, in the order they were armed
    calls,                \* the number of calls of the public request API so far
    connects,             \* every connect() call so far; call c spawned process c
    processes,            \* the child processes spawned so far
    emitted,              \* the events the last step emitted, in order
    settled,              \* the sendRequest promises the last step settled, and how, in order
    returned,             \* the connect() calls the last step completed, and how
    written,              \* the requests the last step wrote, and the process whose stdin it wrote each to
    killed,               \* the processes the last step sent a terminate signal to
    received,             \* the response the last step called handleResponse with
    skipped,              \* the stdout line the last step returned on or failed to parse
    heard,                \* the stderr chunk the last step's 'data' listeners were called with
    \* the API server (api.js)
    sessions,             \* the sessions Map: session id -> its session object (by number)
    sessionObjects,       \* every session object created so far: {id, sdkSessionId, createdAt, lastActivity}
    queries,              \* every processQuery call that has called the SDK's query(), in call order
    now,                  \* Date.now(), in milliseconds since the server started
    swept,                \* the sweep due at this instant has run
    replied,              \* the HTTP response the last step of the API server sent
    \* the database service (DatabaseService)
    service,              \* its fields, and every call of its methods so far, in call order
    completed             \* the calls of its methods the last step completed, and how

vars == <<requestId, pendingRequests, serverProcess, isConnected, isInitialized,
          availableTools, availableResources, issued, requests, timers, calls,
          connects, processes, emitted, settled, returned, written, killed, received,
          skipped, heard,
          sessions, sessionObjects, queries, now, swept, replied,
          service, completed>>

\* the variables of the database service
serviceVars == <<service, completed>>

\* the variables of the API server
apiVars == <<sessions, sessionObjects, queries, now, swept, replied>>

\* the variables of the MCP client
clientVars == <<requestId, pendingRequests, serverProcess, isConnected, isInitialized,
                availableTools, availableResources, issued, requests, timers, calls,
                connects, processes, emitted, settled, returned, written, killed, received,
                skipped, heard>>

\* the state as one value, so that a handler and the continuations it
\* releases compose as functions from state to state
State ==
    [requestId |-> requestId, pendingRequests |-> pendingRequests,
     serverProcess |-> serverProcess, isConnected |-> isConnected,
     isInitialized |-> isInitialized, availableTools |-> availableTools,
     availableResources |-> availableResources, issued |-> issued,
     requests |-> requests, timers |-> timers, calls |-> calls,
     connects |-> connects, processes |-> processes,
     emitted |-> emitted, settled |-> settled, returned |-> returned,
     written |-> written, killed |-> killed, received |-> received,
     skipped |-> skipped, heard |-> heard]

\* nothing put out is waiting to be observed
Quiet ==
    /\ emitted = <<>>
    /\ settled = <<>>
    /\ returned = <<>>
    /\ written = <<>>
    /\ killed = <<>>
    /\ received = <<>>
    /\ skipped = <<>>
    /\ heard = <<>>
    /\ completed = <<>>

\* the state a callback starts from
Start == State

\* what the last callback put out is observed
Observe ==
    /\ ~Quiet
    /\ emitted' = <<>>
    /\ settled' = <<>>
    /\ returned' = <<>>
    /\ written' = <<>>
    /\ killed' = <<>>
    /\ received' = <<>>
    /\ skipped' = <<>>
    /\ heard' = <<>>
    /\ completed' = <<>>
    /\ UNCHANGED <<apiVars, service>>
    /\ UNCHANGED <<requestId, pendingRequests, serverProcess, isConnected, isInitialized,
                   availableTools, availableResources, issued, requests, timers, calls,
                   connects, processes>>

\* constructor
Init ==
    /\ requestId = 0
    /\ pendingRequests = <<>>
    /\ serverProcess = NoProcess
    /\ isConnected = FALSE
    /\ isInitialized = FALSE
    /\ availableTools = <<>>
    /\ availableResources = <<>>
    /\ issued = <<>>
    /\ requests = <<>>
    /\ timers = <<>>
    /\ calls = 0
    /\ connects = <<>>
    /\ processes = <<>>
    /\ emitted = <<>>
    /\ settled = <<>>
    /\ returned = <<>>
    /\ written = <<>>
    /\ killed = <<>>
    /\ received = <<>>
    /\ skipped = <<>>
    /\ heard = <<>>
    \* api.js: const sessions = new Map() (27); the interval is set (54)
    /\ sessions = <<>>
    /\ sessionObjects = <<>>
    /\ queries = <<>>
    /\ now = 0
    /\ swept = TRUE
    /\ replied = <<>>
    \* DatabaseService: constructor (9-15)
    /\ service = [isConnected |-> FALSE, mcpClient |-> FALSE, disconnected |-> FALSE,
                  calls |-> <<>>]
    /\ completed = <<>>

\* ------------------------------------------------------------- helpers
\* Map.delete
MapDelete(map, key) == [k \in DOMAIN map \ {key} |-> map[k]]
\* Map.set
MapSet(map, key, value) == [k \in DOMAIN map \cup {key} |-> IF k = key THEN value ELSE map[k]]

\* emit(type, payload)
Emit(s, type, code, signal) ==
    [s EXCEPT !.emitted = Append(@, [type |-> type, code |-> code, signal |-> signal])]

\* setTimeout(callback, delay): the callback is the timeout of request
\* number `request`, or the startup timeout of connect() call `connect`
SetTimeout(s, delay, request, connect) ==
    [s EXCEPT !.timers = Append(@, [delay |-> delay, request |-> request, connect |-> connect])]

\* the armed timers but the one of request r (it has fired)
WithoutRequest(ts, r) == SelectSeq(ts, LAMBDA t : t.request # r)
\* the armed timers but the startup timer of connect() call c (it has fired,
\* or clearTimeout has cleared it)
WithoutConnect(ts, c) == SelectSeq(ts, LAMBDA t : t.connect # c)

\* timer number i of the armed timers may fire now
MayFire(i) == \A j \in 1..(i - 1) : timers[j].delay > timers[i].delay

\* a promise that is settled and whose timer is not armed is held by nothing
Live(s) ==
    [s EXCEPT !.requests =
        [r \in {q \in DOMAIN @ : @[q].state = "pending"
                                 \/ \E i \in 1..Len(s.timers) : s.timers[i].request = q}
           |-> @[r]]]

\* a variant of getNextId whose counter wraps round after 2 (C3 rules it out)
getNextId_wraps(s) == (s.requestId % 2) + 1

\* ++this.requestId
getNextId(s) == s.requestId + 1

\* a variant of TimeoutMessage that leaves the method out (C5 rules it out)
TimeoutMessage_generic(method) == "Request timeout"

\* new Error(`Request timeout: ${request.method}`).message
TimeoutMessage(method) == "Request timeout: " \o method

\* a variant of sendRequest that registers and writes the request without
\* looking at the process handle (C16 rules it out)
sendRequest_unguarded(s, method) ==
    LET id == getNextId(s)
        n == Len(s.issued) + 1
        built == [s EXCEPT !.requestId = id, !.issued = Append(@, id)]
    IN  SetTimeout(
            [built EXCEPT
                !.pendingRequests = MapSet(@, id, n),
                !.requests = MapSet(@, n, [id |-> id, method |-> method,
                                            state |-> "pending"]),
                !.written = Append(@, [proc |-> s.serverProcess, id |-> id,
                                       method |-> method])],
            REQUEST_TIMEOUT_MS, n, 0)

\* sendRequest(request), of a request built with id: getNextId() and this
\* method (249-268); the promise it returns is request number Len(issued) + 1
sendRequest(s, method) ==
    LET id == getNextId(s)
        n == Len(s.issued) + 1
        built == [s EXCEPT !.requestId = id, !.issued = Append(@, id)]
    IN  IF s.serverProcess = NoProcess
        THEN [built EXCEPT !.settled = Append(@, [request |-> n, id |-> id, method |-> method,
                                                   state |-> "rejected",
                                                   value |-> "Server not connected"])]
        ELSE SetTimeout(
                 [built EXCEPT
                     !.pendingRequests = MapSet(@, id, n),
                     !.requests = MapSet(@, n, [id |-> id, method |-> method,
                                                 state |-> "pending"]),
                     !.written = Append(@, [proc |-> s.serverProcess, id |-> id,
                                            method |-> method])],
                 REQUEST_TIMEOUT_MS, n, 0)

\* the promise sendRequest has just returned in state s, the last one
\* issued, is rejected already ('Server not connected')
RejectedAtOnce(s) == Len(s.issued) \notin DOMAIN s.requests

\* ----------------------------------------------------- DatabaseService
\* The service holds one MCP client, made by its initialize() call; it
\* listens to the client's 'disconnected' event and awaits the client's
\* connect() and callTool() promises.  `service` is
\*   isConnected   this.isConnected
\*   mcpClient     this.mcpClient is set and the listeners are registered
\*   disconnected  the 'disconnected' listener has run since initialize() was called
\*   calls         every call of a method: its name, where it is, the
\*                 connect() call or the request it awaits, the SQL query of
\*                 its conversion, whether validateSQL has returned for it,
\*                 and what it returned or threw

\* the results a tools/call may come back with: a content array whose text
\* is a JSON array of rows, or a text that is not JSON, flagged isError or not
ToolResults == {"rows", "rows isError", "text", "text isError"}
\* JSON.parse(textContent.text) returns
ParsesAsJson(result) == result \in {"rows", "rows isError"}
\* result.isError
IsError(result) == result \in {"rows isError", "text isError"}

\* the methods that need a connected service
Methods ==
    {"processNaturalLanguageQuery", "executeSQL", "listTables", "describeTable",
     "listDatabases"}

\* what convertToSQL comes to: it throws, or returns a conversion without
\* arguments, or with arguments whose query is absent, empty or a SQL text
Conversions == {"threw", "no arguments", "no query", "empty query", "SELECT 1"}
\* conversion.arguments.query
QueryOf(conversion) ==
    CASE conversion = "no query" -> Undefined
      [] conversion = "empty query" -> ""
      [] OTHER -> conversion

\* the client and the service as one value: a handler of the client, the
\* listeners it calls and the continuations it releases compose as functions
World(s) == [client |-> s, service |-> service, completed |-> completed]

\* a call of a service method begins
NewCall(method, pc, awaiting) ==
    [method |-> method, pc |-> pc, awaiting |-> awaiting, query |-> Undefined,
     validated |-> FALSE, value |-> Undefined]

\* call k returns value, or throws it
Complete(w, k, state, value) ==
    [w EXCEPT !.service.calls[k].pc = state,
              !.service.calls[k].value = value,
              !.completed = Append(@, [call |-> k, method |-> w.service.calls[k].method,
                                       state |-> state, value |-> value])]

\* this.mcpClient.callTool(name, arguments)
CallTool(w) == [w EXCEPT !.client = sendRequest(@, "tools/call")]
\* call k awaits the promise callTool has just returned
AwaitTool(w, k, pc) ==
    [w EXCEPT !.service.calls[k].pc = pc,
              !.service.calls[k].awaiting = Len(w.client.issued)]

\* the 'disconnected' listener (107-110)
onDisconnected(w) ==
    [w EXCEPT !.service.isConnected = FALSE, !.service.disconnected = TRUE]

\* initialize() when loadDatabaseSchema() has returned (46-47)
finishInitialize(w, k) ==
    Complete([w EXCEPT !.service.isConnected = TRUE], k, "returned", Undefined)

\* loadDatabaseSchema() after its await of callTool('describe_table') for
\* a table (144-220): a text that does not parse makes it fall back to a
\* sample read_query; whatever happens is caught, and the schema is stored
afterDescribeTable(w, k, state, value) ==
    IF state = "resolved" /\ value \in ToolResults /\ ~ParsesAsJson(value)
    THEN LET sent == CallTool(w)
         IN  IF RejectedAtOnce(sent.client)
             THEN finishInitialize(sent, k)
             ELSE AwaitTool(sent, k, "read_query")
    ELSE finishInitialize(w, k)

\* loadDatabaseSchema() after its await of callTool('list_tables')
\* (121-144, 236-239): a rejection is caught; a table list that parses
\* names one table, which is described
afterListTables(w, k, state, value) ==
    IF state = "resolved" /\ ParsesAsJson(value)
    THEN LET sent == CallTool(w)
         IN  IF RejectedAtOnce(sent.client)
             THEN afterDescribeTable(sent, k, "rejected", "Server not connected")
             ELSE AwaitTool(sent, k, "describe_table")
    ELSE finishInitialize(w, k)

\* initialize() after its await of this.mcpClient.connect() (41-44, 49-52),
\* then loadDatabaseSchema() up to its await of callTool('list_tables')
afterConnect(w, k, state, error) ==
    IF state = "rejected"
    THEN Complete(w, k, "threw", error)
    ELSE LET sent == CallTool(w)
         IN  IF RejectedAtOnce(sent.client)
             THEN afterListTables(sent, k, "rejected", "Server not connected")
             ELSE AwaitTool(sent, k, "list_tables")

\* executeSQL() after its await of callTool (358-384): it returns the rows
\* with the result's isError flag, or the result itself when its text does
\* not parse, and throws what callTool threw
afterExecuteSQL(w, k, state, value) ==
    IF state = "rejected"
    THEN Complete(w, k, "threw", value)
    ELSE Complete(w, k, "returned", value)

\* listTables(), describeTable() and listDatabases() after their await of
\* callTool (395-418, 429-435, 446-452)
afterTool(w, k, state, value) ==
    IF state = "rejected"
    THEN Complete(w, k, "threw", value)
    ELSE Complete(w, k, "returned", value)

\* processNaturalLanguageQuery() after its await of callTool (276-346):
\* with rows to explain or a query to validate again it awaits the OpenAI
\* service before it returns
afterExecute(w, k, state, value) ==
    IF state = "rejected"
    THEN Complete(w, k, "threw", value)
    ELSE IF value = Undefined
    THEN Complete(w, k, "threw", "TypeError")
    ELSE IF ParsesAsJson(value) \/ Truthy(w.service.calls[k].query)
    THEN [w EXCEPT !.service.calls[k].pc = "reporting", !.service.calls[k].value = value]
    ELSE Complete(w, k, "returned", value)

\* processNaturalLanguageQuery() calls the tool of the conversion (276)
execute(w, k) ==
    LET sent == CallTool(w)
    IN  IF RejectedAtOnce(sent.client)
        THEN afterExecute(sent, k, "rejected", "Server not connected")
        ELSE AwaitTool(sent, k, "callTool")

\* a variant of afterConvertToSQL that calls the tool without waiting for
\* the validation (C26 rules it out)
afterConvertToSQL_executesFirst(w, k, conversion) ==
    IF conversion = "threw"
    THEN Complete(w, k, "threw", "Failed to convert to SQL")
    ELSE IF conversion = "no arguments"
    THEN Complete(w, k, "threw", "TypeError")
    ELSE execute([w EXCEPT !.service.calls[k].query = QueryOf(conversion)], k)

\* processNaturalLanguageQuery() after its await of convertToSQL (257-273):
\* a conversion with a query is validated first
afterConvertToSQL(w, k, conversion) ==
    IF conversion = "threw"
    THEN Complete(w, k, "threw", "Failed to convert to SQL")
    ELSE IF conversion = "no arguments"
    THEN \* conversion.arguments.query, of undefined: a TypeError
         Complete(w, k, "threw", "TypeError")
    ELSE IF Truthy(QueryOf(conversion))
    THEN [w EXCEPT !.service.calls[k].query = QueryOf(conversion),
                   !.service.calls[k].pc = "validateSQL"]
    ELSE execute([w EXCEPT !.service.calls[k].query = QueryOf(conversion)], k)

\* processNaturalLanguageQuery() after its await of validateSQL (269-276):
\* the verdict is logged, and the tool is called
afterValidateSQL(w, k, safe) ==
    execute([w EXCEPT !.service.calls[k].validated = TRUE], k)

\* the service calls that await connect() call c, and those that await
\* promise r
AwaitingConnect(w, c) ==
    {k \in 1..Len(w.service.calls) :
        w.service.calls[k].pc = "connect" /\ w.service.calls[k].awaiting = c}
AwaitingTool(w, r) ==
    {k \in 1..Len(w.service.calls) :
        /\ w.service.calls[k].pc \in {"list_tables", "describe_table", "read_query", "callTool"}
        /\ w.service.calls[k].awaiting = r}

\* the continuation of service call k, which awaits a callTool promise
ContinueTool(w, k, state, value) ==
    CASE w.service.calls[k].pc = "list_tables" -> afterListTables(w, k, state, value)
      [] w.service.calls[k].pc = "describe_table" -> afterDescribeTable(w, k, state, value)
      [] w.service.calls[k].pc = "read_query" -> finishInitialize(w, k)
      [] w.service.calls[k].method = "processNaturalLanguageQuery" -> afterExecute(w, k, state, value)
      [] w.service.calls[k].method = "executeSQL" -> afterExecuteSQL(w, k, state, value)
      [] OTHER -> afterTool(w, k, state, value)

\* what the service does in a callback of the client that ends in state s:
\* its 'disconnected' listener runs when the client emits the event, and
\* the call that awaits a connect() call or a promise the callback has
\* settled goes on
Service(s) ==
    LET w == World(s)
        listened == IF /\ service.mcpClient
                       /\ \E i \in 1..Len(s.emitted) : s.emitted[i].type = "disconnected"
                    THEN onDisconnected(w)
                    ELSE w
        connected == {i \in 1..Len(s.returned) : AwaitingConnect(w, s.returned[i].call) # {}}
        tools == {i \in 1..Len(s.settled) : AwaitingTool(w, s.settled[i].request) # {}}
    IN  IF connected # {}
        THEN LET i == CHOOSE i \in connected : TRUE
                 k == CHOOSE k \in AwaitingConnect(w, s.returned[i].call) : TRUE
             IN  afterConnect(listened, k, s.returned[i].state, s.returned[i].error)
        ELSE IF tools # {}
        THEN LET i == CHOOSE i \in tools : TRUE
                 k == CHOOSE k \in AwaitingTool(w, s.settled[i].request) : TRUE
             IN  ContinueTool(listened, k, s.settled[i].state, s.settled[i].value)
        ELSE listened

\* the step ends with the client and the service as in w
BecomesWorld(w) ==
    /\ requestId' = w.client.requestId
    /\ pendingRequests' = w.client.pendingRequests
    /\ serverProcess' = w.client.serverProcess
    /\ isConnected' = w.client.isConnected
    /\ isInitialized' = w.client.isInitialized
    /\ availableTools' = w.client.availableTools
    /\ availableResources' = w.client.availableResources
    /\ issued' = w.client.issued
    /\ requests' = w.client.requests
    /\ timers' = w.client.timers
    /\ calls' = w.client.calls
    /\ connects' = w.client.connects
    /\ processes' = w.client.processes
    /\ emitted' = w.client.emitted
    /\ settled' = w.client.settled
    /\ returned' = w.client.returned
    /\ written' = w.client.written
    /\ killed' = w.client.killed
    /\ received' = w.client.received
    /\ skipped' = w.client.skipped
    /\ heard' = w.client.heard
    /\ service' = w.service
    /\ completed' = w.completed
    /\ UNCHANGED apiVars

\* a callback of the client ends in state s, and the service has done its part
Becomes(s) == BecomesWorld(Service(s))

\* ------------------------------------------------------------- connect()
\* connect(), lines 27-40: spawn, setupCommunication, and the start of
\* waitForServerReady (the 10 s timer and the stderr listener of this process).
\* The application calls connect() when every earlier connect() call has
\* returned: connect() calls do not overlap.
connect(s) ==
    SetTimeout(
        [s EXCEPT
            !.serverProcess = Len(s.processes) + 1,
            !.processes = Append(@, [exited |-> FALSE, signalled |-> FALSE]),
            !.connects = Append(@, [pc |-> "waitReady", awaiting |-> 0])],
        STARTUP_TIMEOUT_MS, 0, Len(s.connects) + 1)

\* the application calls connect()
Connect ==
    /\ Quiet
    /\ \A c \in 1..Len(connects) : connects[c].pc \in {"resolved", "rejected"}
    /\ Becomes(connect(Start))

\* connect() lines 45-48, reached when initialize() has returned
finishConnect(s, c) ==
    Emit([s EXCEPT !.isConnected = TRUE, !.connects[c].pc = "resolved",
                   !.returned = Append(@, [call |-> c, state |-> "resolved", error |-> Undefined])],
         "connected", Undefined, Undefined)

\* a variant of failConnect that signals the child and drops the handle
\* before it throws (C29 rules it out)
failConnect_cleansUp(s, c, error) ==
    [s EXCEPT !.connects[c].pc = "rejected",
              !.killed = IF s.serverProcess # NoProcess THEN Append(@, s.serverProcess) ELSE @,
              !.serverProcess = NoProcess,
              !.returned = Append(@, [call |-> c, state |-> "rejected", error |-> error])]

\* connect() throws what the awaited call threw (50-53)
failConnect(s, c, error) ==
    [s EXCEPT !.connects[c].pc = "rejected",
              !.returned = Append(@, [call |-> c, state |-> "rejected", error |-> error])]

\* connect() call c awaits the promise of the request sendRequest has just
\* made in state s: the last one issued
Await(s, c, pc) == [s EXCEPT !.connects[c].pc = pc, !.connects[c].awaiting = Len(s.issued)]

\* loadCapabilities() after its await of listResources() (178-184)
afterResources(s, c, state, value) ==
    IF state = "rejected" \/ value = Undefined
    THEN finishConnect(s, c)
    ELSE finishConnect([s EXCEPT !.availableResources = ResourcesOrEmpty(value)], c)

\* loadCapabilities() after its await of listTools() (173-178, 182-184)
afterTools(s, c, state, value) ==
    IF state = "rejected" \/ value = Undefined
    THEN finishConnect(s, c)
    ELSE LET sent == sendRequest([s EXCEPT !.availableTools = ToolsOrEmpty(value)],
                                 "resources/list")
         IN  IF RejectedAtOnce(sent)
             THEN afterResources(sent, c, "rejected", "Server not connected")
             ELSE Await(sent, c, "waitResources")

\* a variant of afterInitialize that marks the session initialized and loads
\* the capabilities whatever the initialize request came to (C12 rules it out)
afterInitialize_lenient(s, c, state, value) ==
    LET sent == sendRequest([s EXCEPT !.isInitialized = TRUE], "tools/list")
    IN  IF RejectedAtOnce(sent)
        THEN afterTools(sent, c, "rejected", "Server not connected")
        ELSE Await(sent, c, "waitTools")

\* initialize() after its await of the initialize request (154-164), then
\* loadCapabilities() up to its await of listTools() (171-173)
afterInitialize(s, c, state, value) ==
    IF state = "rejected"
    THEN failConnect(s, c, value)
    ELSE IF value = Undefined
    THEN \* response.error, of undefined: a TypeError
         failConnect(s, c, "TypeError")
    ELSE IF value = ResultWithError
    THEN \* if (response.error) throw (156-158)
         failConnect(s, c, "Initialization failed: boom")
    ELSE LET sent == sendRequest([s EXCEPT !.isInitialized = TRUE], "tools/list")
         IN  IF RejectedAtOnce(sent)
             THEN afterTools(sent, c, "rejected", "Server not connected")
             ELSE Await(sent, c, "waitTools")

\* waitForServerReady() has resolved (121-123): its timer is cleared and
\* connect() goes on into initialize() up to its await of the initialize
\* request (43, 135-154)
afterReady(s, c) ==
    LET cleared == [s EXCEPT !.timers = WithoutConnect(@, c)]
        sent == sendRequest(cleared, "initialize")
    IN  IF RejectedAtOnce(sent)
        THEN afterInitialize(sent, c, "rejected", "Server not connected")
        ELSE Await(sent, c, "waitInit")

\* the connect() calls that await promise r
Awaiting(s, r) ==
    {c \in 1..Len(s.connects) :
        s.connects[c].awaiting = r /\ s.connects[c].pc \in {"waitInit", "waitTools", "waitResources"}}

\* a variant of Continue in which a catalog that comes back to a caller
\* outside the client replaces the stored one (C20 rules it out)
Continue_refreshes(s, r, state, value) ==
    IF Awaiting(s, r) = {}
    THEN IF state = "resolved" /\ value = "catalog"
         THEN [s EXCEPT !.availableTools = ToolsOrEmpty(value)]
         ELSE s
    ELSE LET c == CHOOSE c \in Awaiting(s, r) : TRUE IN
         CASE s.connects[c].pc = "waitInit" -> afterInitialize(s, c, state, value)
           [] s.connects[c].pc = "waitTools" -> afterTools(s, c, state, value)
           [] s.connects[c].pc = "waitResources" -> afterResources(s, c, state, value)

\* the code that awaits promise r runs when r is settled: a connect() call,
\* or a caller outside the client
Continue(s, r, state, value) ==
    IF Awaiting(s, r) = {}
    THEN s
    ELSE LET c == CHOOSE c \in Awaiting(s, r) : TRUE IN
         CASE s.connects[c].pc = "waitInit" -> afterInitialize(s, c, state, value)
           [] s.connects[c].pc = "waitTools" -> afterTools(s, c, state, value)
           [] s.connects[c].pc = "waitResources" -> afterResources(s, c, state, value)

\* resolve(value) / reject(error) of promise r: a settled promise stays as it
\* is; the code awaiting a promise that becomes settled runs next.  Of a
\* settled request the timer reads the id alone (its reject does nothing).
Settle(s, r, state, value) ==
    IF r \in DOMAIN s.requests /\ s.requests[r].state = "pending"
    THEN Continue(Live([s EXCEPT !.requests[r].state = state,
                                 !.requests[r].method = "",
                                 !.settled = Append(@, [request |-> r, id |-> s.requests[r].id,
                                                        method |-> s.requests[r].method,
                                                        state |-> state, value |-> value])]),
                  r, state, value)
    ELSE s

\* a variant of handleResponse that empties the table (C1 rules it out)
handleResponse_clearsTable(s, response) ==
    IF response.id \in DOMAIN s.pendingRequests
    THEN LET pending == s.pendingRequests[response.id]
             deleted == [s EXCEPT !.pendingRequests = <<>>]
         IN  IF Truthy(response.error)
             THEN Settle(deleted, pending, "rejected",
                         IF Truthy(response.message) THEN response.message ELSE "Unknown error")
             ELSE Settle(deleted, pending, "resolved", response.result)
    ELSE s

\* a variant of handleResponse that drops error.message (C4 rules it out)
handleResponse_unknownError(s, response) ==
    IF response.id \in DOMAIN s.pendingRequests
    THEN LET pending == s.pendingRequests[response.id]
             deleted == [s EXCEPT !.pendingRequests = MapDelete(@, response.id)]
         IN  IF Truthy(response.error)
             THEN Settle(deleted, pending, "rejected", "Unknown error")
             ELSE Settle(deleted, pending, "resolved", response.result)
    ELSE s

\* a variant of handleResponse that answers the requests in the order they
\* were issued: a response to any other than the oldest is dropped (C7 rules
\* it out)
handleResponse_inOrder(s, response) ==
    IF /\ response.id \in DOMAIN s.pendingRequests
       /\ \A id \in DOMAIN s.pendingRequests : response.id <= id
    THEN LET pending == s.pendingRequests[response.id]
             deleted == [s EXCEPT !.pendingRequests = MapDelete(@, response.id)]
         IN  IF Truthy(response.error)
             THEN Settle(deleted, pending, "rejected",
                         IF Truthy(response.message) THEN response.message ELSE "Unknown error")
             ELSE Settle(deleted, pending, "resolved", response.result)
    ELSE s

\* a variant of handleResponse that gives a response nobody waits for to the
\* oldest request (C8 rules it out)
handleResponse_fallsBack(s, response) ==
    LET id == IF response.id \in DOMAIN s.pendingRequests \/ DOMAIN s.pendingRequests = {}
              THEN response.id
              ELSE CHOOSE i \in DOMAIN s.pendingRequests :
                       \A j \in DOMAIN s.pendingRequests : i <= j
    IN  IF id \in DOMAIN s.pendingRequests
        THEN LET pending == s.pendingRequests[id]
                 deleted == [s EXCEPT !.pendingRequests = MapDelete(@, id)]
             IN  IF Truthy(response.error)
                 THEN Settle(deleted, pending, "rejected",
                             IF Truthy(response.message) THEN response.message
                             ELSE "Unknown error")
                 ELSE Settle(deleted, pending, "resolved", response.result)
        ELSE s

\* handleResponse(response) (274-284)
handleResponse(s, response) ==
    IF response.id \in DOMAIN s.pendingRequests
    THEN LET pending == s.pendingRequests[response.id]
             deleted == [s EXCEPT !.pendingRequests = MapDelete(@, response.id)]
         IN  IF Truthy(response.error)
             THEN Settle(deleted, pending, "rejected",
                         IF Truthy(response.message) THEN response.message ELSE "Unknown error")
             ELSE Settle(deleted, pending, "resolved", response.result)
    ELSE s

\* a variant of IncludesServerRunning that looks for the two words anywhere
\* in the chunk (C9 rules it out)
IncludesServerRunning_anyOrder(chunk) ==
    \E i, j \in 1..Len(chunk) : chunk[i] = "Server" /\ chunk[j] = "running"

\* message.includes('Server running'), a chunk being a sequence of words
IncludesServerRunning(chunk) ==
    \E i \in 1..(Len(chunk) - 1) : chunk[i] = "Server" /\ chunk[i + 1] = "running"

StderrChunks ==
    { <<"Connecting", "to", "database">>, <<"running", "Server">>,
      <<"MCP", "Server", "running", "on", "stdio">> }

\* the stderr 'data' listeners of process p (89-94 and checkReady, 119-125)
StderrData(p, chunk) ==
    /\ Quiet
    /\ p \in 1..Len(processes)
    /\ LET called == [Start EXCEPT !.heard = <<[proc |-> p, chunk |-> chunk]>>]
       IN  IF IncludesServerRunning(chunk) /\ connects[p].pc = "waitReady"
           THEN Becomes(afterReady(called, p))
           ELSE Becomes(called)

\* a variant of StartupTimer that gives up waiting and goes on to the
\* handshake (C11 rules it out)
StartupTimer_proceeds(i) ==
    /\ Quiet
    /\ i \in 1..Len(timers)
    /\ timers[i].connect # 0
    /\ MayFire(i)
    /\ LET c == timers[i].connect
           fired == [Start EXCEPT !.timers = WithoutConnect(@, c)]
       IN  IF connects[c].pc = "waitReady"
           THEN Becomes(afterReady(fired, c))
           ELSE Becomes(fired)

\* the 10 s timer of waitForServerReady (114-116), armed timer number i
StartupTimer(i) ==
    /\ Quiet
    /\ i \in 1..Len(timers)
    /\ timers[i].connect # 0
    /\ MayFire(i)
    /\ LET c == timers[i].connect
           fired == [Start EXCEPT !.timers = WithoutConnect(@, c)]
       IN  IF connects[c].pc = "waitReady"
           THEN Becomes(failConnect(fired, c, "Server startup timeout"))
           ELSE Becomes(fired)

\* ------------------------------------------------- the public request API
\* a call of a method that builds a request with getNextId() and returns
\* sendRequest(request)
Call(method) ==
    /\ Quiet
    /\ Becomes(sendRequest([Start EXCEPT !.calls = @ + 1], method))

listTools == Call("tools/list")
listResources == Call("resources/list")
callTool == Call("tools/call")
readResource == Call("resources/read")

\* ------------------------------------------------------------ stdout lines
\* A stdout line is a leading bracketed tag ("" when it has none), the kind
\* of text after it, and, when that text is a JSON object, the object.
LogTags == {"[INFO]", "[ERROR]", "[WARN]", "[DEBUG]"}

\* the ids a child may answer with that are not pending: the last one
\* that was pending, and one never issued
OrphanIds ==
    {requestId + 1}
    \cup {i \in 1..requestId : i \notin DOMAIN pendingRequests
                               /\ \A j \in (i + 1)..requestId : j \in DOMAIN pendingRequests}

\* the response objects a child may write, message being error.message
Response(id, error, message, result) ==
    [id |-> id, error |-> error, message |-> message, result |-> result]
Responses ==
    { Response(id, Undefined, Undefined, result) :
          id \in DOMAIN pendingRequests, result \in Results \cup {Undefined} }
    \cup { Response(id, ErrorObject, message, Undefined) :
              id \in DOMAIN pendingRequests, message \in ErrorMessages }
    \cup { Response(id, ErrorObject, "boom", "content") :
              id \in DOMAIN pendingRequests \cup OrphanIds }
    \cup { Response(id, Null, Undefined, "content") : id \in DOMAIN pendingRequests }
    \cup { Response(id, Undefined, Undefined, "content") : id \in OrphanIds }
NoObject == Response(0, Undefined, Undefined, Undefined)

Lines ==
    { [tag |-> "", text |-> "json object", json |-> j] : j \in Responses }
    \cup { [tag |-> "", text |-> x, json |-> NoObject] :
              x \in {"empty", "spaces", "not json", "json null"} }
    \cup { [tag |-> t, text |-> "not json", json |-> NoObject] : t \in LogTags \cup {"[TRACE]"} }
    \cup { [tag |-> t, text |-> "json object",
            json |-> Response(id, Undefined, Undefined, "content")] :
              t \in {"[INFO]", "[TRACE]"}, id \in DOMAIN pendingRequests }

\* !line.trim()
IsBlankLine(line) == line.tag = "" /\ line.text \in {"empty", "spaces"}
\* line.match(/^\[(INFO|ERROR|WARN|DEBUG)\]/)
IsLogLine(line) == line.tag \in LogTags
\* a variant of ParseFails that finds the JSON text behind a tag (C19 rules
\* it out)
ParseFails_skipsTag(line) == line.text \notin {"json null", "json object"}
\* JSON.parse(line) throws
ParseFails(line) == line.tag # "" \/ line.text \notin {"json null", "json object"}

\* the line reaches handleResponse with an object (77-78)
IsResponse(line) ==
    ~IsBlankLine(line) /\ ~IsLogLine(line) /\ ~ParseFails(line) /\ line.text # "json null"

\* the readline 'line' listener (66-86)
HandleLine(line) ==
    /\ Quiet
    /\ processes # <<>>
    /\ IF IsResponse(line)
       THEN Becomes(handleResponse([Start EXCEPT !.received = <<line.json>>], line.json))
       ELSE \* skipped, or JSON.parse or handleResponse(null) threw into the catch
            Becomes([Start EXCEPT !.skipped = <<line>>])

\* ------------------------------------------------------------------ timers
\* a variant of RequestTimer that, when its request is still pending, drops
\* every entry of the table (C6 rules it out)
RequestTimer_sweeps(i) ==
    /\ Quiet
    /\ i \in 1..Len(timers)
    /\ timers[i].request # 0
    /\ MayFire(i)
    /\ LET r == timers[i].request
           id == requests[r].id
           fired == [Start EXCEPT !.timers = WithoutRequest(@, r)]
       IN  IF id \in DOMAIN pendingRequests
           THEN Becomes(Live(Settle([fired EXCEPT !.pendingRequests = <<>>],
                                    r, "rejected", TimeoutMessage(requests[r].method))))
           ELSE Becomes(Live(fired))

\* a variant of RequestTimer that rejects its request whether or not it is
\* still in the table (C27 rules it out)
RequestTimer_rejectsAgain(i) ==
    /\ Quiet
    /\ i \in 1..Len(timers)
    /\ timers[i].request # 0
    /\ MayFire(i)
    /\ LET r == timers[i].request
           id == requests[r].id
           fired == [Start EXCEPT !.timers = WithoutRequest(@, r)]
       IN  IF id \in DOMAIN pendingRequests
           THEN Becomes(Live(Settle([fired EXCEPT !.pendingRequests = MapDelete(@, id)],
                                    r, "rejected", TimeoutMessage(requests[r].method))))
           ELSE Becomes(Live([fired EXCEPT
                    !.settled = Append(@, [request |-> r, id |-> id, method |-> "",
                                           state |-> "rejected",
                                           value |-> TimeoutMessage("")])]))

\* the 30 s timer of a request (262-267), armed timer number i
RequestTimer(i) ==
    /\ Quiet
    /\ i \in 1..Len(timers)
    /\ timers[i].request # 0
    /\ MayFire(i)
    /\ LET r == timers[i].request
           id == requests[r].id
           fired == [Start EXCEPT !.timers = WithoutRequest(@, r)]
       IN  IF id \in DOMAIN pendingRequests
           THEN Becomes(Live(Settle([fired EXCEPT !.pendingRequests = MapDelete(@, id)],
                                    r, "rejected", TimeoutMessage(requests[r].method))))
           ELSE Becomes(Live(fired))

\* ------------------------------------------------------- exit, disconnect()
\* (code, signal) of an exit
Exits == { <<"0", Null>>, <<Null, "SIGTERM">> }

\* the 'exit' listener of process p (102-106)
ProcessExit(p, exit) ==
    /\ Quiet
    /\ p \in 1..Len(processes)
    /\ ~processes[p].exited
    /\ Becomes(Emit([Start EXCEPT !.processes[p].exited = TRUE, !.isConnected = FALSE],
                    "disconnected", exit[1], exit[2]))

\* a variant of disconnect that starts the ids again (C2 rules it out)
disconnect_resetsCounter ==
    /\ Quiet
    /\ LET dropped == IF serverProcess # NoProcess
                     THEN [Start EXCEPT !.killed = Append(@, serverProcess),
                                        !.processes[serverProcess].signalled = TRUE,
                                        !.serverProcess = NoProcess]
                     ELSE Start
       IN  Becomes(Emit([dropped EXCEPT !.isConnected = FALSE, !.isInitialized = FALSE,
                                        !.requestId = 0],
                     "disconnected", Undefined, Undefined))

\* a variant of disconnect that signals the process whether or not a handle
\* is held (C15 rules it out)
disconnect_alwaysKills ==
    /\ Quiet
    /\ LET dropped == [Start EXCEPT !.killed = Append(@, serverProcess),
                                    !.serverProcess = NoProcess]
       IN  Becomes(Emit([dropped EXCEPT !.isConnected = FALSE, !.isInitialized = FALSE],
                     "disconnected", Undefined, Undefined))

\* a variant of disconnect that empties the pending table (C17 rules it out)
disconnect_dropsPending ==
    /\ Quiet
    /\ LET dropped == IF serverProcess # NoProcess
                     THEN [Start EXCEPT !.killed = Append(@, serverProcess),
                                        !.processes[serverProcess].signalled = TRUE,
                                        !.serverProcess = NoProcess]
                     ELSE Start
       IN  Becomes(Emit([dropped EXCEPT !.isConnected = FALSE, !.isInitialized = FALSE,
                                        !.pendingRequests = <<>>],
                     "disconnected", Undefined, Undefined))

\* a variant of disconnect that cancels the timers (C18 rules it out)
disconnect_clearsTimers ==
    /\ Quiet
    /\ LET dropped == IF serverProcess # NoProcess
                     THEN [Start EXCEPT !.killed = Append(@, serverProcess),
                                        !.processes[serverProcess].signalled = TRUE,
                                        !.serverProcess = NoProcess]
                     ELSE Start
       IN  Becomes(Emit([dropped EXCEPT !.isConnected = FALSE, !.isInitialized = FALSE,
                                        !.timers = <<>>],
                     "disconnected", Undefined, Undefined))

\* disconnect() (296-305)
Disconnect(s) ==
    LET dropped == IF s.serverProcess # NoProcess
                   THEN [s EXCEPT !.killed = Append(@, s.serverProcess),
                                  !.processes[s.serverProcess].signalled = TRUE,
                                  !.serverProcess = NoProcess]
                   ELSE s
    IN  Emit([dropped EXCEPT !.isConnected = FALSE, !.isInitialized = FALSE],
             "disconnected", Undefined, Undefined)

\* the application calls disconnect()
disconnect ==
    /\ Quiet
    /\ Becomes(Disconnect(Start))

\* isClientConnected()
isClientConnected == isConnected /\ isInitialized

\* ------------------------------------------------------------ specification
\* what the child process, the timers and the observer do
Environment ==
    \/ \E p \in 1..Len(processes), chunk \in StderrChunks : StderrData(p, chunk)
    \/ \E i \in 1..Len(timers) : StartupTimer(i)
    \/ \E line \in Lines : HandleLine(line)
    \/ \E i \in 1..Len(timers) : RequestTimer(i)
    \/ \E p \in 1..Len(processes), exit \in Exits : ProcessExit(p, exit)
    \/ Observe

\* one connect() call, and the application calls the request API and
\* disconnect() at any moment
Next ==
    \/ connects = <<>> /\ Connect
    \/ calls < MaxCalls /\ listTools
    \/ calls < MaxCalls /\ listResources
    \/ calls < MaxCalls /\ callTool
    \/ calls < MaxCalls /\ readResource
    \/ disconnect
    \/ Environment

Spec == Init /\ [][Next]_vars

\* An armed timer's callback runs: the event loop runs the callback of every
\* timer that is not cleared, however many other callbacks it has to run
\* (setTimeout at 115-117 and 261-267).
FireTimer == \E i \in 1..Len(timers) : StartupTimer(i) \/ RequestTimer(i)

\* when a timer's callback can run: between two callbacks, while a timer is
\* armed (the one armed first may always fire)
FireTimerEnabled == Quiet /\ timers # <<>>

\* FireTimerEnabled is ENABLED <<FireTimer>>_vars (an invariant of Spec)
FireTimerEnabledIsEnabled == FireTimerEnabled <=> ENABLED <<FireTimer>>_vars

\* The program under the event loop's scheduling.  What a callback has put
\* out is taken note of before the next callback runs: WF_vars(Observe).  A
\* timer can fire between any two callbacks but not during one, so it is
\* enabled again and again rather than continuously, and the event loop does
\* run it: strong fairness of FireTimer, SF_vars(FireTimer), written with
\* its enabling condition spelled out.
SpecLive ==
    /\ Init /\ [][Next]_vars
    /\ WF_vars(Observe)
    /\ []<>FireTimerEnabled => []<><<FireTimer>>_vars

\* connect() calls one after the other, disconnect() at any moment, and
\* the application calls the request API while the client holds no process
NextReconnect ==
    \/ Len(connects) < MaxConnects /\ Connect
    \/ calls < MaxOfflineCalls /\ serverProcess = NoProcess /\ callTool
    \/ calls < MaxOfflineCalls /\ serverProcess = NoProcess /\ readResource
    \/ disconnect
    \/ Environment

SpecReconnect == Init /\ [][NextReconnect]_vars

\* --------------------------------------------- the service's methods
\* initialize() (20-44): the OpenAI service and the MCP client are made, the
\* listeners are registered, and connect() is called and awaited.  The
\* application calls initialize() once, on a new service.
Initialize ==
    /\ Quiet
    /\ ~service.mcpClient
    /\ BecomesWorld(
           [client |-> connect(Start),
            service |-> [service EXCEPT
                            !.mcpClient = TRUE,
                            !.calls = Append(@, NewCall("initialize", "connect",
                                                        Len(connects) + 1))],
            completed |-> <<>>])

\* the calls of the service's methods but initialize() so far
ServiceCalls == Cardinality({k \in 1..Len(service.calls) : service.calls[k].method # "initialize"})

\* processNaturalLanguageQuery (246-262), executeSQL (351-358), listTables
\* (390-396), describeTable (423-429) or listDatabases (440-446) is called
ServiceCall(method) ==
    /\ Quiet
    /\ LET k == Len(service.calls) + 1
           called == [World(Start) EXCEPT
                         !.service.calls = Append(@, NewCall(method, "called", 0))]
       IN  IF ~service.isConnected
           THEN BecomesWorld(Complete(called, k, "threw", "Database service not connected"))
           ELSE IF method = "processNaturalLanguageQuery"
           THEN BecomesWorld([called EXCEPT !.service.calls[k].pc = "convertToSQL"])
           ELSE LET sent == CallTool(called)
                IN  IF RejectedAtOnce(sent.client)
                    THEN BecomesWorld(ContinueTool(AwaitTool(sent, k, "callTool"), k,
                                                   "rejected", "Server not connected"))
                    ELSE BecomesWorld(AwaitTool(sent, k, "callTool"))

\* convertToSQL returns to call k, or throws
ConvertReturns(k, conversion) ==
    /\ Quiet
    /\ k \in 1..Len(service.calls)
    /\ service.calls[k].pc = "convertToSQL"
    /\ BecomesWorld(afterConvertToSQL(World(Start), k, conversion))

\* validateSQL returns its verdict to call k (it catches what goes wrong
\* and returns safe: false)
ValidateReturns(k, safe) ==
    /\ Quiet
    /\ k \in 1..Len(service.calls)
    /\ service.calls[k].pc = "validateSQL"
    /\ BecomesWorld(afterValidateSQL(World(Start), k, safe))

\* explainResults, suggestFollowUps and the second validateSQL have
\* returned to call k (314-346); none of them throws
ReportReturns(k) ==
    /\ Quiet
    /\ k \in 1..Len(service.calls)
    /\ service.calls[k].pc = "reporting"
    /\ BecomesWorld(Complete(World(Start), k, "returned", service.calls[k].value))

\* DatabaseService.disconnect() (478-484)
ServiceDisconnect ==
    /\ Quiet
    /\ LET w == World(Start)
           left == IF service.mcpClient
                   THEN onDisconnected([w EXCEPT !.client = Disconnect(@)])
                   ELSE w
       IN  BecomesWorld([left EXCEPT !.service.isConnected = FALSE])

\* the responses the server writes: to a tools/call a tool result, to
\* another request a result with the catalog, and to either an error
ToolResponses ==
    { Response(id, Undefined, Undefined, result) :
          id \in {i \in DOMAIN pendingRequests :
                      requests[pendingRequests[i]].method = "tools/call"},
          result \in ToolResults }
    \cup { Response(id, Undefined, Undefined, "catalog") :
              id \in {i \in DOMAIN pendingRequests :
                          requests[pendingRequests[i]].method # "tools/call"} }
    \cup { Response(id, ErrorObject, "boom", Undefined) : id \in DOMAIN pendingRequests }
ToolLines == { [tag |-> "", text |-> "json object", json |-> j] : j \in ToolResponses }

\* the service is initialized once and its methods are called at any
\* moment; the server logs on stderr, answers the requests, and exits
NextService ==
    \/ Initialize
    \/ \E method \in Methods : ServiceCalls < MaxServiceCalls /\ ServiceCall(method)
    \/ \E k \in 1..Len(service.calls), conversion \in Conversions : ConvertReturns(k, conversion)
    \/ \E k \in 1..Len(service.calls), safe \in BOOLEAN : ValidateReturns(k, safe)
    \/ \E k \in 1..Len(service.calls) : ReportReturns(k)
    \/ ServiceDisconnect
    \/ \E p \in 1..Len(processes), chunk \in StderrChunks : StderrData(p, chunk)
    \/ \E i \in 1..Len(timers) : StartupTimer(i)
    \/ \E line \in ToolLines : HandleLine(line)
    \/ \E i \in 1..Len(timers) : RequestTimer(i)
    \/ \E p \in 1..Len(processes), exit \in Exits : ProcessExit(p, exit)
    \/ Observe

SpecService == Init /\ [][NextService]_vars

\* ================================================ the API server (api.js)
ONE_HOUR_MS == 3600000
SWEEP_INTERVAL_MS == 300000

\* Math.random().toString(36).substr(2, 9)
Randoms == {"a", "b"}
\* `session_${Date.now()}_${Math.random().toString(36).substr(2, 9)}` (34, 574)
NewId(random) == "session_" \o ToString(now) \o "_" \o random

\* the sessionId a request may carry: none, an empty one, one the client has
\* made up, and the id of any session there has been
SuppliedIds ==
    {Undefined, "", "mine"} \cup {sessionObjects[o].id : o \in 1..Len(sessionObjects)}
\* the prompt a request may carry
Prompts == {Undefined, "how many users"}
\* the session_id an SDK init message may carry
SdkSessionIds == {Undefined, "sdk-1", "sdk-2"}

\* a variant of getSession that starts the session's conversation again on
\* every access (C21 rules it out)
getSession_forgets(sessionId, random) ==
    LET id == IF ~Truthy(sessionId) THEN NewId(random) ELSE sessionId
        fresh == id \notin DOMAIN sessions
        map == IF fresh THEN MapSet(sessions, id, Len(sessionObjects) + 1) ELSE sessions
        objects == IF fresh
                   THEN Append(sessionObjects, [id |-> id, sdkSessionId |-> Null,
                                                createdAt |-> now, lastActivity |-> now])
                   ELSE sessionObjects
    IN  [sessions |-> map,
         sessionObjects |-> [objects EXCEPT ![map[id]].lastActivity = now,
                                            ![map[id]].sdkSessionId = Null],
         session |-> map[id]]

\* getSession(sessionId) (32-49), random being what Math.random gives if it is
\* called: the Map and the session objects afterwards, and the object returned
getSession(sessionId, random) ==
    LET id == IF ~Truthy(sessionId) THEN NewId(random) ELSE sessionId
        fresh == id \notin DOMAIN sessions
        map == IF fresh THEN MapSet(sessions, id, Len(sessionObjects) + 1) ELSE sessions
        objects == IF fresh
                   THEN Append(sessionObjects, [id |-> id, sdkSessionId |-> Null,
                                                createdAt |-> now, lastActivity |-> now])
                   ELSE sessionObjects
    IN  [sessions |-> map,
         sessionObjects |-> [objects EXCEPT ![map[id]].lastActivity = now],
         session |-> map[id]]

\* a variant of PostQuery that takes the session named by the request even
\* when newSession is set (C23 rules it out)
PostQuery_keepsSession(prompt, sessionId, newSession, random) ==
    IF ~Truthy(prompt)
    THEN /\ replied' = <<[route |-> "POST /query", status |-> 400, success |-> FALSE,
                          sessionId |-> Undefined]>>
         /\ UNCHANGED <<sessions, sessionObjects, queries, now, swept>>
         /\ UNCHANGED <<clientVars, serviceVars>>
    ELSE LET got == getSession(sessionId, random)
             session == got.sessionObjects[got.session]
         IN  /\ sessions' = got.sessions
             /\ sessionObjects' = got.sessionObjects
             /\ queries' = Append(queries,
                    [session |-> got.session,
                     resume |-> IF Truthy(session.sdkSessionId) THEN session.sdkSessionId
                                ELSE Undefined,
                     state |-> "running"])
             /\ replied' = <<>>
             /\ UNCHANGED <<now, swept>>
             /\ UNCHANGED <<clientVars, serviceVars>>

\* POST /query (559-595) with processQuery (162-489) up to its first await,
\* in the for-await over the query stream (241): the session is taken or
\* made, resume is set from session.sdkSessionId (211-213), and query() is
\* called (227)
PostQuery(prompt, sessionId, newSession, random) ==
    IF ~Truthy(prompt)
    THEN /\ replied' = <<[route |-> "POST /query", status |-> 400, success |-> FALSE,
                          sessionId |-> Undefined]>>
         /\ UNCHANGED <<sessions, sessionObjects, queries, now, swept>>
         /\ UNCHANGED <<clientVars, serviceVars>>
    ELSE LET got == IF newSession
                    THEN getSession(NewId(random), random)
                    ELSE getSession(sessionId, random)
             session == got.sessionObjects[got.session]
         IN  /\ sessions' = got.sessions
             /\ sessionObjects' = got.sessionObjects
             /\ queries' = Append(queries,
                    [session |-> got.session,
                     resume |-> IF Truthy(session.sdkSessionId) THEN session.sdkSessionId
                                ELSE Undefined,
                     state |-> "running"])
             /\ replied' = <<>>
             /\ UNCHANGED <<now, swept>>
             /\ UNCHANGED <<clientVars, serviceVars>>

\* the stream of query q yields a system init message (245-249); the session
\* object is the one processQuery was called with, in the Map or not
SdkInit(q, session_id) ==
    /\ q \in 1..Len(queries)
    /\ queries[q].state = "running"
    /\ sessionObjects' = IF Truthy(session_id)
                         THEN [sessionObjects EXCEPT ![queries[q].session].sdkSessionId = session_id]
                         ELSE sessionObjects
    /\ replied' = <<>>
    /\ UNCHANGED <<sessions, queries, now, swept>>
    /\ UNCHANGED <<clientVars, serviceVars>>

\* the stream of query q ends or throws; processQuery returns its result
\* (455-488) and the route answers with it (584)
QueryReturns(q, threw) ==
    /\ q \in 1..Len(queries)
    /\ queries[q].state = "running"
    /\ queries' = [queries EXCEPT ![q].state = "done"]
    /\ replied' = <<[route |-> "POST /query", status |-> 200, success |-> ~threw,
                     sessionId |-> IF threw THEN Undefined
                                   ELSE sessionObjects[queries[q].session].id]>>
    /\ UNCHANGED <<sessions, sessionObjects, now, swept>>
    /\ UNCHANGED <<clientVars, serviceVars>>

\* a variant of ClearSession that empties the Map (C24 rules it out)
ClearSession_all(sessionId) ==
    /\ IF ~Truthy(sessionId)
       THEN /\ replied' = <<[route |-> "POST /session/clear", status |-> 400,
                             success |-> FALSE, sessionId |-> Undefined]>>
            /\ UNCHANGED sessions
       ELSE IF sessionId \in DOMAIN sessions
       THEN /\ sessions' = <<>>
            /\ replied' = <<[route |-> "POST /session/clear", status |-> 200,
                             success |-> TRUE, sessionId |-> Undefined]>>
       ELSE /\ replied' = <<[route |-> "POST /session/clear", status |-> 404,
                             success |-> FALSE, sessionId |-> Undefined]>>
            /\ UNCHANGED sessions
    /\ UNCHANGED <<sessionObjects, queries, now, swept>>
    /\ UNCHANGED <<clientVars, serviceVars>>

\* POST /session/clear (600-622)
ClearSession(sessionId) ==
    /\ IF ~Truthy(sessionId)
       THEN /\ replied' = <<[route |-> "POST /session/clear", status |-> 400,
                             success |-> FALSE, sessionId |-> Undefined]>>
            /\ UNCHANGED sessions
       ELSE IF sessionId \in DOMAIN sessions
       THEN /\ sessions' = MapDelete(sessions, sessionId)
            /\ replied' = <<[route |-> "POST /session/clear", status |-> 200,
                             success |-> TRUE, sessionId |-> Undefined]>>
       ELSE /\ replied' = <<[route |-> "POST /session/clear", status |-> 404,
                             success |-> FALSE, sessionId |-> Undefined]>>
            /\ UNCHANGED sessions
    /\ UNCHANGED <<sessionObjects, queries, now, swept>>
    /\ UNCHANGED <<clientVars, serviceVars>>

\* GET /session/:sessionId (627-648)
SessionInfo(sessionId) ==
    /\ replied' = IF sessionId \in DOMAIN sessions
                  THEN <<[route |-> "GET /session", status |-> 200, success |-> TRUE,
                          sessionId |-> sessionObjects[sessions[sessionId]].id]>>
                  ELSE <<[route |-> "GET /session", status |-> 404, success |-> FALSE,
                          sessionId |-> Undefined]>>
    /\ UNCHANGED <<sessions, sessionObjects, queries, now, swept>>
    /\ UNCHANGED <<clientVars, serviceVars>>

\* a variant of Sweep that deletes the sessions idle for an hour or more
\* (C22 rules it out)
Sweep_atOneHour ==
    /\ ~swept
    /\ LET oneHourAgo == now - ONE_HOUR_MS
       IN  sessions' = [id \in {k \in DOMAIN sessions :
                                    ~(sessionObjects[sessions[k]].lastActivity <= oneHourAgo)}
                           |-> sessions[id]]
    /\ swept' = TRUE
    /\ replied' = <<>>
    /\ UNCHANGED <<sessionObjects, queries, now>>
    /\ UNCHANGED <<clientVars, serviceVars>>

\* the callback of the interval (54-61), due when the time is a multiple of
\* the interval
Sweep ==
    /\ ~swept
    /\ LET oneHourAgo == now - ONE_HOUR_MS
       IN  sessions' = [id \in {k \in DOMAIN sessions :
                                    ~(sessionObjects[sessions[k]].lastActivity < oneHourAgo)}
                           |-> sessions[id]]
    /\ swept' = TRUE
    /\ replied' = <<>>
    /\ UNCHANGED <<sessionObjects, queries, now>>
    /\ UNCHANGED <<clientVars, serviceVars>>

\* time passes, up to the instant the next sweep is due; the sweep due now
\* has run
Tick ==
    /\ swept
    /\ now < MaxTicks * SWEEP_INTERVAL_MS
    /\ now' = now + SWEEP_INTERVAL_MS
    /\ swept' = FALSE
    /\ replied' = <<>>
    /\ UNCHANGED <<sessions, sessionObjects, queries>>
    /\ UNCHANGED <<clientVars, serviceVars>>

\* the requests of the clients and what the SDK's streams do, within one
\* sweep interval
NextApi ==
    \/ \E prompt \in Prompts, sessionId \in SuppliedIds, newSession \in BOOLEAN,
          random \in Randoms :
          Len(queries) < MaxQueries /\ PostQuery(prompt, sessionId, newSession, random)
    \/ \E q \in 1..Len(queries), session_id \in SdkSessionIds : SdkInit(q, session_id)
    \/ \E q \in 1..Len(queries), threw \in BOOLEAN : QueryReturns(q, threw)
    \/ \E sessionId \in SuppliedIds : ClearSession(sessionId)
    \/ \E sessionId \in SuppliedIds \ {Undefined, ""} : SessionInfo(sessionId)

SpecApi == Init /\ [][NextApi]_vars

\* the queries of the clients over the hours, and the sweeps
NextSweep ==
    \/ \E sessionId \in SuppliedIds, newSession \in BOOLEAN, random \in Randoms :
          Len(queries) < MaxQueries
              /\ PostQuery("how many users", sessionId, newSession, random)
    \/ Sweep
    \/ Tick

SpecSweep == Init /\ [][NextSweep]_vars

\* ------------------------------------------------------------------ claims
\* C1 (correlation correctness): when a parsed stdout response carries
\* id = k and k is pending, the step settles first the promise registered
\* under k, whatever else the step settles is a request made by the code that
\* awaited it, the entry of k is removed, and every other entry of the table
\* and every other waiting promise is as it was.
C1_CorrelationCorrectness ==
    [][(received' # <<>> /\ received'[1].id \in DOMAIN pendingRequests) =>
             LET k == received'[1].id
                 r == pendingRequests[k]
             IN  /\ settled' # <<>>
                 /\ settled'[1].request = r
                 /\ settled'[1].id = k
                 /\ \A i \in 2..Len(settled') : settled'[i].request \notin DOMAIN requests
                 /\ k \notin DOMAIN pendingRequests'
                 /\ \A j \in DOMAIN pendingRequests \ {k} :
                        j \in DOMAIN pendingRequests' /\ pendingRequests'[j] = pendingRequests[j]
                 /\ \A q \in DOMAIN requests \ {r} :
                        requests[q].state = "pending" =>
                            q \in DOMAIN requests' /\ requests'[q] = requests[q]
    ]_vars

\* C1's case: a response has rejected its request while another entry stays
C1_Witness ==
    /\ settled # <<>>
    /\ settled[1].state = "rejected"
    /\ settled[1].value = "boom"
    /\ \E j \in DOMAIN pendingRequests : pendingRequests[j] # settled[1].request

\* C2 (id uniqueness): the ids taken from getNextId, in call order, are
\* strictly increasing, hence pairwise distinct, whatever has been answered
\* and across disconnect()/connect() cycles.
C2_IdUniqueness ==
    /\ \A i, j \in 1..Len(issued) : i < j => issued[i] < issued[j]
    /\ \A i \in 1..Len(issued) : issued[i] <= requestId

\* C2's case: the second connect() writes its initialize request after the
\* first connect() had resolved, disconnect() had been called, and the
\* application had called the request API
C2_Witness ==
    /\ Len(connects) = 2
    /\ connects[1].pc = "resolved"
    /\ ~isInitialized
    /\ calls > 0
    /\ written # <<>>
    /\ written[1].method = "initialize"
    /\ written[1].proc = 2
    /\ Len(issued) >= 4

\* C3 (pending-table invariant): no two waiting promises share an id, every
\* entry of the table is the waiting promise of the request with that id, a
\* step leaves the continuation of an id that stays pending as it is, and the
\* id a step gives to a new request is not in the table.
C3_PendingTable ==
    /\ [](/\ \A q, r \in DOMAIN requests :
                (/\ requests[q].state = "pending"
                 /\ requests[r].state = "pending"
                 /\ requests[q].id = requests[r].id) => q = r
          /\ \A id \in DOMAIN pendingRequests :
                /\ pendingRequests[id] \in DOMAIN requests
                /\ requests[pendingRequests[id]].id = id
                /\ requests[pendingRequests[id]].state = "pending")
    /\ [][/\ \A id \in DOMAIN pendingRequests \cap DOMAIN pendingRequests' :
                pendingRequests'[id] = pendingRequests[id]
          /\ \A i \in (Len(issued) + 1)..Len(issued') :
                issued'[i] \notin DOMAIN pendingRequests
      ]_vars

\* C3's case: a request has been registered while another one is waiting
C3_Witness ==
    /\ written # <<>>
    /\ \E id \in DOMAIN pendingRequests : id # written[1].id
    /\ written[1].id \in DOMAIN pendingRequests

\* C4 (settlement outcome), as the code has it: when a response whose id is
\* pending arrives, the request rejects if the response's error field is
\* truthy, with error.message, or 'Unknown error' when that message is absent
\* or empty, and otherwise (no error field, or a null one) resolves with
\* response.result as it is.
C4_SettlementOutcome ==
    [][(received' # <<>> /\ received'[1].id \in DOMAIN pendingRequests) =>
             LET response == received'[1]
                 r == pendingRequests[response.id]
             IN  /\ settled' # <<>>
                 /\ settled'[1].request = r
                 /\ settled'[1].method = requests[r].method
                 /\ IF response.error \notin {Undefined, Null}
                    THEN /\ settled'[1].state = "rejected"
                         /\ settled'[1].value = IF response.message \in {Undefined, ""}
                                                 THEN "Unknown error"
                                                 ELSE response.message
                    ELSE /\ settled'[1].state = "resolved"
                         /\ settled'[1].value = response.result
    ]_vars

\* C4's case: a tools/call request has resolved with the payload of its response
C4_Witness ==
    /\ settled # <<>>
    /\ settled[1].method = "tools/call"
    /\ settled[1].state = "resolved"
    /\ settled[1].value = "content"

\* C4 as the specification words it: the request rejects whenever the
\* response carries an error field, with 'Unknown error' only when the
\* message is absent.
C4_AsWorded ==
    [][(received' # <<>> /\ received'[1].id \in DOMAIN pendingRequests) =>
             LET response == received'[1]
             IN  /\ settled' # <<>>
                 /\ IF response.error # Undefined
                    THEN /\ settled'[1].state = "rejected"
                         /\ settled'[1].value = IF response.message = Undefined
                                                 THEN "Unknown error"
                                                 ELSE response.message
                    ELSE /\ settled'[1].state = "resolved"
                         /\ settled'[1].value = response.result
    ]_vars

\* C5 (request timeout): when the 30 s timer of a request fires and its id is
\* still pending, the request rejects with 'Request timeout: ' followed by its
\* method and its entry leaves the table in that step; a response that
\* arrives with an id issued before and no longer pending changes nothing.
C5_RequestTimeout ==
    [][/\ \A i \in 1..Len(timers) :
            (RequestTimer(i) /\ requests[timers[i].request].id \in DOMAIN pendingRequests) =>
                LET r == timers[i].request
                IN  /\ timers[i].delay = 30000
                    /\ settled' # <<>>
                    /\ settled'[1] = [request |-> r, id |-> requests[r].id,
                                      method |-> requests[r].method, state |-> "rejected",
                                      value |-> "Request timeout: " \o requests[r].method]
                    /\ requests[r].method \in {"initialize", "tools/list", "resources/list",
                                               "tools/call", "resources/read"}
                    /\ requests[r].id \notin DOMAIN pendingRequests'
       /\ (/\ received' # <<>>
           /\ received'[1].id \in 1..requestId
           /\ received'[1].id \notin DOMAIN pendingRequests) =>
              /\ settled' = <<>>
              /\ returned' = <<>>
              /\ UNCHANGED <<pendingRequests, requests, timers, connects>>
    ]_vars

\* C5's case: a tools/call request has timed out
C5_Witness ==
    /\ settled # <<>>
    /\ settled[1].value = "Request timeout: tools/call"
    /\ settled[1].id \notin DOMAIN pendingRequests

\* C6 (timeout isolation): when the timer of a request A fires, every other
\* waiting request B keeps its entry, its promise and its armed timer, and
\* the step settles nothing of B; when a response settles B, every other
\* waiting request A keeps its entry, its promise and its armed timer.
C6_TimeoutIsolation ==
    [][/\ \A i \in 1..Len(timers) :
            RequestTimer(i) =>
                \A id \in DOMAIN pendingRequests :
                    LET b == pendingRequests[id]
                    IN  b # timers[i].request =>
                            /\ id \in DOMAIN pendingRequests'
                            /\ pendingRequests'[id] = b
                            /\ b \in DOMAIN requests'
                            /\ requests'[b] = requests[b]
                            /\ \E t \in 1..Len(timers') : timers'[t].request = b
                            /\ \A n \in 1..Len(settled') : settled'[n].request # b
       /\ (received' # <<>> /\ received'[1].id \in DOMAIN pendingRequests) =>
                \A id \in DOMAIN pendingRequests \ {received'[1].id} :
                    LET a == pendingRequests[id]
                    IN  /\ id \in DOMAIN pendingRequests'
                        /\ pendingRequests'[id] = a
                        /\ requests'[a] = requests[a]
                        /\ \E t \in 1..Len(timers') : timers'[t].request = a
                        /\ \A n \in 1..Len(settled') : settled'[n].request # a
    ]_vars

\* C6's case: A times out after B, issued after A, has resolved inside its
\* own window (B's timer is still armed)
C6_Witness ==
    /\ settled # <<>>
    /\ settled[1].state = "rejected"
    /\ settled[1].value = "Request timeout: " \o settled[1].method
    /\ \E b \in DOMAIN requests :
          /\ b > settled[1].request
          /\ requests[b].state = "resolved"
          /\ \E t \in 1..Len(timers) : timers[t].request = b

\* C7 (out-of-order completion): a response settles the request with its id
\* with its own payload in the step it arrives in, whichever requests issued
\* before or after it are still waiting, and those go on waiting.
C7_OutOfOrderCompletion ==
    [][(received' # <<>> /\ received'[1].id \in DOMAIN pendingRequests) =>
             /\ settled' # <<>>
             /\ settled'[1].id = received'[1].id
             /\ settled'[1].state = "resolved" => settled'[1].value = received'[1].result
             /\ settled'[1].state = "rejected" =>
                    settled'[1].value \in {received'[1].message, "Unknown error"}
             /\ \A older \in DOMAIN pendingRequests :
                    older < received'[1].id =>
                        /\ older \in DOMAIN pendingRequests'
                        /\ \A n \in 1..Len(settled') : settled'[n].id # older
    ]_vars

\* C7's case: a request has resolved while a request issued before it waits
C7_Witness ==
    /\ settled # <<>>
    /\ settled[1].state = "resolved"
    /\ \E older \in DOMAIN pendingRequests : older < settled[1].id

\* C8 (orphan-response tolerance): a parsed response whose id is not pending
\* changes nothing: the table and the promises are as they were, nothing is
\* settled, emitted, written or returned, and the listener returns normally.
C8_OrphanResponse ==
    [][(received' # <<>> /\ received'[1].id \notin DOMAIN pendingRequests) =>
             /\ UNCHANGED <<requestId, pendingRequests, serverProcess, isConnected,
                            isInitialized, availableTools, availableResources, issued,
                            requests, timers, calls, connects, processes>>
             /\ settled' = <<>>
             /\ emitted' = <<>>
             /\ returned' = <<>>
             /\ written' = <<>>
             /\ killed' = <<>>
    ]_vars

\* C8's case: a response to a request that is no longer pending has been
\* handled while another request waits
C8_Witness ==
    /\ received # <<>>
    /\ received[1].id \in 1..requestId
    /\ received[1].id \notin DOMAIN pendingRequests
    /\ settled = <<>>
    /\ pendingRequests # <<>>

\* C9 (connect ordering): the initialize request is written only in the step
\* of a stderr chunk that contains 'Server running', for the connect() call
\* that waits for it; a connect() call goes on to the capability load only
\* in the step that resolves its initialize request; it resolves only from
\* there, in a step that settles a tools/list or resources/list request, and
\* 'connected' is emitted exactly when it resolves.
C9_ConnectOrdering ==
    [][/\ (\E n \in 1..Len(written') : written'[n].method = "initialize") =>
            /\ heard' # <<>>
            /\ \E w \in 1..(Len(heard'[1].chunk) - 1) :
                   heard'[1].chunk[w] = "Server" /\ heard'[1].chunk[w + 1] = "running"
            /\ connects[heard'[1].proc].pc = "waitReady"
            /\ \A n \in 1..Len(written') : written'[n].proc = heard'[1].proc
       /\ \A c \in 1..Len(connects) :
            /\ (connects[c].pc = "waitReady" /\ connects'[c].pc # "waitReady") =>
                   connects'[c].pc \in {"waitInit", "rejected"}
            /\ (/\ connects[c].pc \in {"waitReady", "waitInit"}
                /\ connects'[c].pc \in {"waitTools", "waitResources", "resolved"}) =>
                   /\ connects[c].pc = "waitInit"
                   /\ settled' # <<>>
                   /\ settled'[1].request = connects[c].awaiting
                   /\ settled'[1].method = "initialize"
                   /\ settled'[1].state = "resolved"
            /\ (connects[c].pc # "resolved" /\ connects'[c].pc = "resolved") =>
                   /\ settled' # <<>>
                   /\ settled'[Len(settled')].method \in {"tools/list", "resources/list"}
                   /\ \E n \in 1..Len(emitted') : emitted'[n].type = "connected"
                   /\ \E n \in 1..Len(returned') :
                          returned'[n] = [call |-> c, state |-> "resolved", error |-> Undefined]
       /\ \A n \in 1..Len(returned') :
            returned'[n].state = "resolved" =>
                /\ returned'[n].call \in 1..Len(connects)
                /\ connects[returned'[n].call].pc \in {"waitInit", "waitTools", "waitResources"}
       /\ (\E n \in 1..Len(emitted') : emitted'[n].type = "connected") =>
            \E n \in 1..Len(returned') : returned'[n].state = "resolved"
    ]_vars

\* C9's case: connect() has resolved after the readiness chunk, the
\* handshake and both capability requests
C9_Witness ==
    /\ returned # <<>>
    /\ returned[1].state = "resolved"
    /\ \E n \in 1..Len(emitted) : emitted[n].type = "connected"
    /\ settled # <<>>
    /\ settled[1].method = "resources/list"
    /\ availableTools # <<>>

\* C10 (connected after connect): whenever a connect() call resolves,
\* isClientConnected() is true at that moment.
C10_ConnectedAfterConnect ==
    \A n \in 1..Len(returned) : returned[n].state = "resolved" => isClientConnected

\* C11 (startup timeout): when the 10 s timer of waitForServerReady fires
\* (no chunk containing 'Server running' has come), connect() rejects with
\* 'Server startup timeout' and the step writes nothing, emits nothing and
\* leaves isConnected and isInitialized false; from then on that connect()
\* call stays rejected, whatever arrives on stderr: no initialize request is
\* written, 'connected' is not emitted and the flags stay false.
C11_StartupTimeout ==
    [][/\ \A i \in 1..Len(timers) :
            (StartupTimer(i) /\ connects[timers[i].connect].pc = "waitReady") =>
                LET c == timers[i].connect
                IN  /\ timers[i].delay = 10000
                    /\ returned' = <<[call |-> c, state |-> "rejected",
                                      error |-> "Server startup timeout"]>>
                    /\ connects'[c] = [pc |-> "rejected", awaiting |-> 0]
                    /\ written' = <<>>
                    /\ emitted' = <<>>
                    /\ ~isConnected' /\ ~isInitialized'
       /\ \A c \in 1..Len(connects) :
            (connects[c].pc = "rejected" /\ connects[c].awaiting = 0) =>
                /\ connects'[c] = connects[c]
                /\ \A n \in 1..Len(written') : written'[n].method # "initialize"
                /\ \A n \in 1..Len(emitted') : emitted'[n].type # "connected"
                /\ ~isConnected' /\ ~isInitialized'
    ]_vars

\* C11's case: connect() has rejected on the startup timer, the client still
\* holds the process, and the chunk with 'Server running' comes late
C11_Witness ==
    /\ heard # <<>>
    /\ \E w \in 1..(Len(heard[1].chunk) - 1) :
          heard[1].chunk[w] = "Server" /\ heard[1].chunk[w + 1] = "running"
    /\ connects[heard[1].proc] = [pc |-> "rejected", awaiting |-> 0]
    /\ serverProcess = heard[1].proc
    /\ written = <<>>
    /\ requestId = 0

\* C12 (handshake failure), as the code has it: when the response to the
\* initialize request of a connect() call has a truthy error field, connect()
\* rejects in that step with the error's message, isInitialized and
\* isConnected stay false, nothing is written and 'connected' is not
\* emitted; when it has none (or a null one) and carries a result without an
\* error property, isInitialized is true at the end of the step, in which the
\* tools/list request is the only one written.  A connect() call rejected in
\* the handshake stays rejected, writes no tools/list or resources/list
\* request and leaves the flags false.
C12_HandshakeFailure ==
    [][/\ \A c \in 1..Len(connects) :
            (/\ connects[c].pc = "waitInit"
             /\ received' # <<>>
             /\ received'[1].id \in DOMAIN pendingRequests
             /\ pendingRequests[received'[1].id] = connects[c].awaiting) =>
                IF received'[1].error \notin {Undefined, Null}
                THEN /\ connects'[c].pc = "rejected"
                     /\ returned' = <<[call |-> c, state |-> "rejected",
                                       error |-> IF received'[1].message \in {Undefined, ""}
                                                 THEN "Unknown error"
                                                 ELSE received'[1].message]>>
                     /\ ~isInitialized' /\ ~isConnected'
                     /\ written' = <<>>
                     /\ emitted' = <<>>
                ELSE IF received'[1].result \in {"catalog", "content"}
                THEN /\ isInitialized'
                     /\ \A n \in 1..Len(written') : written'[n].method = "tools/list"
                     /\ Len(written') = IF serverProcess = NoProcess THEN 0 ELSE 1
                     /\ connects'[c].pc = IF serverProcess = NoProcess THEN "resolved"
                                          ELSE "waitTools"
                ELSE /\ connects'[c].pc = "rejected"
                     /\ ~isInitialized' /\ ~isConnected'
                     /\ written' = <<>>
                     /\ emitted' = <<>>
       /\ \A c \in 1..Len(connects) :
            (connects[c].pc = "rejected" /\ connects[c].awaiting # 0) =>
                /\ connects'[c] = connects[c]
                /\ calls' = calls =>
                       \A n \in 1..Len(written') :
                           written'[n].method \notin {"tools/list", "resources/list"}
                /\ \A n \in 1..Len(emitted') : emitted'[n].type # "connected"
                /\ ~isInitialized' /\ ~isConnected'
       /\ (calls' = calls /\ \E n \in 1..Len(written') : written'[n].method = "tools/list") =>
            (isInitialized' /\ ~isInitialized)
    ]_vars

\* C12's case: the initialize request has been answered with an error and
\* connect() has rejected with its message
C12_Witness ==
    /\ received # <<>>
    /\ received[1].error = ErrorObject
    /\ settled # <<>>
    /\ settled[1].method = "initialize"
    /\ returned = <<[call |-> 1, state |-> "rejected", error |-> "boom"]>>
    /\ ~isInitialized

\* C12 as the specification words it: connect() rejects whenever the response
\* to the initialize request carries an error field.
C12_AsWorded ==
    [][\A c \in 1..Len(connects) :
            (/\ connects[c].pc = "waitInit"
             /\ received' # <<>>
             /\ received'[1].id \in DOMAIN pendingRequests
             /\ pendingRequests[received'[1].id] = connects[c].awaiting
             /\ received'[1].error # Undefined) =>
                /\ connects'[c].pc = "rejected"
                /\ ~isInitialized' /\ ~isConnected'
                /\ written' = <<>>
                /\ emitted' = <<>>
    ]_vars

\* C13 (graceful capability degradation): when the tools/list or the
\* resources/list request of a connect() call fails, connect() resolves in
\* that step with isConnected true, and the list that could not be loaded is
\* empty: availableTools after a failed tools/list, availableResources after a
\* failed resources/list; for every connect() call, a reconnect included.
C13_CapabilityDegradation ==
    [][\A c \in 1..Len(connects) :
            (/\ connects[c].pc \in {"waitTools", "waitResources"}
             /\ \E k \in 1..Len(settled') :
                    /\ settled'[k].request = connects[c].awaiting
                    /\ settled'[k].state = "rejected") =>
                /\ connects'[c].pc = "resolved"
                /\ isConnected'
                /\ connects[c].pc = "waitTools" => availableTools' = <<>>
                /\ connects[c].pc = "waitResources" => availableResources' = <<>>
    ]_vars

\* C14 (process exit disconnects): once the child process of the latest
\* connect() call has exited (no connect() call has started since),
\* isClientConnected() returns false.
C14_ProcessExitDisconnects ==
    \A p \in 1..Len(processes) :
        (processes[p].exited /\ Len(connects) = p) => ~isClientConnected

\* C15 (idempotent disconnect): every disconnect() call ends with isConnected
\* and isInitialized false and no process handle held, emits 'disconnected'
\* once, and sends the terminate signal to the process whose handle it held,
\* and to no process when it held none; a disconnect() call that follows
\* another one changes nothing in the client.
C15_IdempotentDisconnect ==
    [][disconnect =>
          /\ ~isConnected' /\ ~isInitialized'
          /\ serverProcess' = NoProcess
          /\ killed' = IF serverProcess = NoProcess THEN <<>> ELSE <<serverProcess>>
          /\ emitted' = <<[type |-> "disconnected", code |-> Undefined, signal |-> Undefined]>>
          /\ returned' = <<>> /\ settled' = <<>> /\ written' = <<>>
          /\ (serverProcess = NoProcess /\ ~isConnected /\ ~isInitialized) =>
                UNCHANGED <<requestId, pendingRequests, serverProcess, isConnected,
                            isInitialized, availableTools, availableResources, issued,
                            requests, timers, calls, connects, processes>>
    ]_vars

\* C15's case: disconnect() has run on a client that had dropped its process
\* handle in an earlier disconnect() call, and has signalled no process
C15_Witness ==
    /\ processes # <<>>
    /\ serverProcess = NoProcess
    /\ emitted = <<[type |-> "disconnected", code |-> Undefined, signal |-> Undefined]>>
    /\ killed = <<>>
    /\ ~isConnected /\ ~isInitialized

\* C16 (calls without a process): a callTool, readResource, listTools or
\* listResources call made while the client holds no process rejects in that
\* step with 'Server not connected', registers nothing in the pending table,
\* arms no timer and writes nothing; a call made in any state causes at most
\* one write, and every write of any step carries an id that no earlier
\* request had (nothing is sent again).
C16_CallsWithoutProcess ==
    [][/\ (calls' = calls + 1 /\ serverProcess = NoProcess) =>
            /\ Len(settled') = 1
            /\ settled'[1].state = "rejected"
            /\ settled'[1].value = "Server not connected"
            /\ settled'[1].method \in {"tools/list", "resources/list", "tools/call",
                                       "resources/read"}
            /\ pendingRequests' = pendingRequests
            /\ requests' = requests
            /\ timers' = timers
            /\ written' = <<>>
       /\ calls' = calls + 1 => Len(written') <= 1
       /\ \A n \in 1..Len(written') :
            /\ written'[n].id > requestId
            /\ \A m \in 1..Len(issued) : issued[m] # written'[n].id
    ]_vars

\* C16's case: a call made after disconnect() has been rejected with 'Server
\* not connected' and nothing has been written
C16_Witness ==
    /\ processes # <<>>
    /\ serverProcess = NoProcess
    /\ calls = 1
    /\ Len(settled) = 1
    /\ settled[1].value = "Server not connected"
    /\ settled[1].method = "tools/call"
    /\ written = <<>>

\* C17 (orphaned requests on teardown): the exit of a process and a
\* disconnect() call leave the pending table, the promises and the timers as
\* they are and settle no request; a request is rejected with 'Request
\* timeout: <its method>' only in the step in which its own timer fires, and
\* that step rejects it so whether or not the process has gone.
C17_OrphanedRequests ==
    [][/\ (disconnect \/ \E p \in 1..Len(processes) : \E exit \in Exits : ProcessExit(p, exit)) =>
            /\ pendingRequests' = pendingRequests
            /\ requests' = requests
            /\ timers' = timers
            /\ settled' = <<>>
            /\ returned' = <<>>
       /\ \A k \in 1..Len(settled') :
            (settled'[k].state = "rejected"
             /\ settled'[k].value \in {TimeoutMessage(m) :
                    m \in {"initialize", "tools/list", "resources/list", "tools/call",
                           "resources/read"}}) =>
                /\ settled'[k].request \in DOMAIN requests
                /\ requests[settled'[k].request].state = "pending"
                /\ settled'[k].value = TimeoutMessage(requests[settled'[k].request].method)
                /\ \E i \in 1..Len(timers) :
                       /\ timers[i].request = settled'[k].request
                       /\ timers[i].delay = 30000
                       /\ RequestTimer(i)
       /\ \A i \in 1..Len(timers) :
            (/\ RequestTimer(i)
             /\ requests[timers[i].request].id \in DOMAIN pendingRequests
             /\ pendingRequests[requests[timers[i].request].id] = timers[i].request
             /\ requests[timers[i].request].state = "pending") =>
                /\ Len(settled') = 1
                /\ settled'[1].request = timers[i].request
                /\ settled'[1].state = "rejected"
                /\ settled'[1].value = TimeoutMessage(requests[timers[i].request].method)
                /\ DOMAIN pendingRequests' = DOMAIN pendingRequests \ {requests[timers[i].request].id}
    ]_vars

\* C17's case: a request that was pending when disconnect() ran and the
\* process exited has been rejected by its timer
C17_Witness ==
    /\ serverProcess = NoProcess
    /\ processes # <<>>
    /\ processes[1].exited
    /\ Len(settled) = 1
    /\ settled[1].state = "rejected"
    /\ settled[1].value = TimeoutMessage("tools/call")

\* C18 (every pending request is eventually settled): every entry of the
\* pending table has an armed timer, and a request that is in the pending
\* table is eventually out of it with its promise resolved or rejected,
\* whatever the child does and whether or not disconnect() is called.
C18_EventuallySettled ==
    /\ [](\A id \in DOMAIN pendingRequests :
             \E i \in 1..Len(timers) :
                 /\ timers[i].request = pendingRequests[id]
                 /\ timers[i].delay = 30000)
    /\ \A id \in 1..(3 + MaxCalls) :
          (id \in DOMAIN pendingRequests) ~>
              (/\ id \notin DOMAIN pendingRequests
               /\ \A r \in DOMAIN requests :
                     requests[r].id = id => requests[r].state # "pending")

\* C18's case: the initialize request, never answered by a child that has
\* exited, has been rejected by its timer and the pending table is empty
C18_Witness ==
    /\ processes # <<>>
    /\ processes[1].exited
    /\ DOMAIN pendingRequests = {}
    /\ Len(settled) = 1
    /\ settled[1].state = "rejected"
    /\ settled[1].value = TimeoutMessage("initialize")

\* C19 (non-protocol stdout lines are ignored): the handling of a stdout line
\* that is blank, that starts with [INFO], [ERROR], [WARN] or [DEBUG], or that
\* is not valid JSON settles no request, writes and emits nothing and leaves
\* the pending table, the promises, the timers, the flags and every other
\* field as they were; a response to a pending request that arrives next is
\* correlated and resolves that request.
C19_NonProtocolLines ==
    [][\A line \in Lines :
          (/\ \/ line.tag = "" /\ line.text \in {"empty", "spaces"}
              \/ line.tag \in {"[INFO]", "[ERROR]", "[WARN]", "[DEBUG]"}
              \/ line.tag # ""
              \/ line.text = "not json"
           /\ HandleLine(line)) =>
              /\ settled' = <<>> /\ returned' = <<>> /\ written' = <<>>
              /\ emitted' = <<>> /\ killed' = <<>> /\ received' = <<>>
              /\ UNCHANGED <<requestId, pendingRequests, serverProcess, isConnected,
                             isInitialized, availableTools, availableResources, issued,
                             requests, timers, calls, connects, processes>>
              /\ \A id \in DOMAIN pendingRequests' :
                    LET next == handleResponse([State' EXCEPT !.skipped = <<>>],
                                               Response(id, Undefined, Undefined, "content"))
                    IN  /\ id \notin DOMAIN next.pendingRequests
                        /\ \A other \in DOMAIN pendingRequests \ {id} :
                               /\ other \in DOMAIN next.pendingRequests
                               /\ next.pendingRequests[other] = pendingRequests[other]
                        /\ next.settled # <<>>
                        /\ next.settled[1].request = pendingRequests[id]
                        /\ next.settled[1].id = id
                        /\ next.settled[1].state = "resolved"
                        /\ next.settled[1].value = "content"
    ]_vars

\* C19's case: a line that is not valid JSON (a JSON text behind a tag that is
\* not a log tag) has been handled while a request was pending
C19_Witness ==
    /\ skipped # <<>>
    /\ skipped[1].tag = "[TRACE]"
    /\ skipped[1].text = "json object"
    /\ skipped[1].json.id \in DOMAIN pendingRequests
    /\ settled = <<>>

\* C20 (catalog is a snapshot): a listTools() or listResources() call made
\* while a process is held writes one new tools/list or resources/list request
\* whose id no earlier request had, and registers it; when the response to a
\* tools/list or resources/list request arrives, the request resolves with
\* that response's result; availableTools and availableResources change only
\* in the step in which a connect() call gets the answer of its own tools/list
\* or resources/list request, and not at all once connect() has returned.
C20_CatalogSnapshot ==
    [][/\ (listTools /\ serverProcess # NoProcess) =>
            /\ written' = <<[proc |-> serverProcess, id |-> requestId + 1,
                             method |-> "tools/list"]>>
            /\ \A n \in 1..Len(issued) : issued[n] # requestId + 1
            /\ (requestId + 1) \in DOMAIN pendingRequests'
            /\ settled' = <<>>
       /\ (listResources /\ serverProcess # NoProcess) =>
            /\ written' = <<[proc |-> serverProcess, id |-> requestId + 1,
                             method |-> "resources/list"]>>
            /\ \A n \in 1..Len(issued) : issued[n] # requestId + 1
            /\ (requestId + 1) \in DOMAIN pendingRequests'
            /\ settled' = <<>>
       /\ \A k \in 1..Len(settled') :
            (/\ settled'[k].method \in {"tools/list", "resources/list"}
             /\ settled'[k].state = "resolved") =>
                /\ received' # <<>>
                /\ received'[1].id = settled'[k].id
                /\ settled'[k].value = received'[1].result
       /\ availableTools' # availableTools =>
            \E c \in 1..Len(connects) :
                /\ connects[c].pc = "waitTools"
                /\ \E k \in 1..Len(settled') : settled'[k].request = connects[c].awaiting
       /\ availableResources' # availableResources =>
            \E c \in 1..Len(connects) :
                /\ connects[c].pc = "waitResources"
                /\ \E k \in 1..Len(settled') : settled'[k].request = connects[c].awaiting
       /\ (connects # <<>>
           /\ \A c \in 1..Len(connects) : connects[c].pc \in {"resolved", "rejected"}) =>
                UNCHANGED <<availableTools, availableResources>>
    ]_vars

\* C20's case: connect() has resolved with an empty tool list, and a
\* listTools() call made by the application has been answered with a catalog
C20_Witness ==
    /\ connects # <<>>
    /\ connects[1].pc = "resolved"
    /\ availableTools = <<>>
    /\ calls = 1
    /\ Len(settled) = 1
    /\ settled[1].method = "tools/list"
    /\ settled[1].state = "resolved"
    /\ settled[1].value = "catalog"
    /\ settled[1].request = 4

\* C27 (at-most-once settlement): a step settles a request only if its
\* promise was pending, or was made in that step, and settles it once; a
\* settled promise keeps its outcome; when the timer of a settled request
\* fires, nothing is settled and the pending table stays as it is; a response
\* whose id is not in the pending table settles nothing.
C27_AtMostOnceSettlement ==
    [][/\ \A k \in 1..Len(settled') :
            /\ \/ /\ settled'[k].request \in DOMAIN requests
                  /\ requests[settled'[k].request].state = "pending"
               \/ settled'[k].request > Len(issued)
            /\ \A j \in 1..Len(settled') :
                   settled'[j].request = settled'[k].request => j = k
       /\ \A r \in DOMAIN requests :
            requests[r].state # "pending" =>
                (r \in DOMAIN requests' => requests'[r] = requests[r])
       /\ \A r \in 1..Len(issued) : r \notin DOMAIN requests => r \notin DOMAIN requests'
       /\ \A i \in 1..Len(timers) :
            (RequestTimer(i) /\ requests[timers[i].request].state # "pending") =>
                /\ requests[timers[i].request].id \notin DOMAIN pendingRequests
                /\ settled' = <<>> /\ returned' = <<>> /\ emitted' = <<>> /\ written' = <<>>
                /\ UNCHANGED <<pendingRequests, requestId, isConnected, isInitialized,
                               serverProcess, connects>>
       /\ (received' # <<>> /\ received'[1].id \notin DOMAIN pendingRequests) =>
            /\ settled' = <<>>
            /\ UNCHANGED <<pendingRequests, requests, timers>>
    ]_vars

\* C27's case: a response has arrived with the id of a request of connect()
\* that was settled and whose timer has fired, and has settled nothing
C27_Witness ==
    /\ calls = 0
    /\ serverProcess # NoProcess
    /\ received # <<>>
    /\ received[1].id \in 1..requestId
    /\ \A r \in DOMAIN requests : requests[r].id # received[1].id
    /\ settled = <<>>

\* C28 (a stale exit does not disturb a newer connection): when the process
\* of an earlier connect() call, which disconnect() has signalled, exits
\* while the client holds the process of a later connect() call, isConnected
\* stays as it is and no 'disconnected' event is emitted.
C28_StaleExit ==
    [][\A p \in 1..Len(processes) : \A exit \in Exits :
          (/\ ProcessExit(p, exit)
           /\ processes[p].signalled
           /\ serverProcess # NoProcess
           /\ serverProcess # p) =>
              /\ isConnected' = isConnected
              /\ emitted' = <<>>
    ]_vars

\* C29 (a failed connect keeps the child): the step in which connect()
\* rejects signals no process and leaves the process handle as it is; once
\* connect() has rejected, isClientConnected() is false, and a callTool or
\* readResource call made while the handle is held writes its request to
\* that process and registers it, rejecting nothing.
C29_FailedConnectKeepsChild ==
    [][/\ \A n \in 1..Len(returned') :
            returned'[n].state = "rejected" =>
                /\ killed' = <<>>
                /\ serverProcess' = serverProcess
                /\ \A p \in 1..Len(processes) : processes'[p] = processes[p]
       /\ \A c \in 1..Len(connects) :
            connects[c].pc = "rejected" =>
                /\ ~isClientConnected'
                /\ ((callTool \/ readResource) /\ serverProcess # NoProcess) =>
                       /\ Len(written') = 1
                       /\ written'[1].proc = serverProcess
                       /\ written'[1].id = requestId + 1
                       /\ written'[1].method \in {"tools/call", "resources/read"}
                       /\ (requestId + 1) \in DOMAIN pendingRequests'
                       /\ settled' = <<>>
    ]_vars

\* C29's case: connect() has rejected on the startup timeout and a callTool
\* call made afterwards has been written to the child that is still held
C29_Witness ==
    /\ connects # <<>>
    /\ connects[1] = [pc |-> "rejected", awaiting |-> 0]
    /\ serverProcess = 1
    /\ written = <<[proc |-> 1, id |-> 1, method |-> "tools/call"]>>
    /\ 1 \in DOMAIN pendingRequests
    /\ ~isClientConnected

\* C21 (follow-up queries resume the conversation): an init message with a
\* session_id, seen by a query, is stored in the session object the query runs
\* on, and nothing else changes what a session object stores; a POST /query
\* that names a session in the Map runs on that session and calls the SDK with
\* resume = the session_id stored in it, and without resume when none is
\* stored; a POST /query whose session is made for it (the first query of a
\* session) calls the SDK without resume; a query that succeeds answers with
\* the id of its session in metadata.sessionId.
C21_FollowUpResumes ==
    [][/\ \A q \in 1..Len(queries) : \A session_id \in SdkSessionIds \ {Undefined} :
            SdkInit(q, session_id) =>
                sessionObjects'[queries[q].session].sdkSessionId = session_id
       /\ \A o \in 1..Len(sessionObjects) :
            sessionObjects'[o].sdkSessionId # sessionObjects[o].sdkSessionId =>
                \E q \in 1..Len(queries) :
                    /\ queries[q].session = o
                    /\ queries[q].state = "running"
                    /\ SdkInit(q, sessionObjects'[o].sdkSessionId)
       /\ \A sessionId \in SuppliedIds : \A random \in Randoms :
            PostQuery("how many users", sessionId, FALSE, random) =>
                LET id == IF sessionId \in {Undefined, ""} THEN NewId(random) ELSE sessionId
                    q == queries'[Len(queries')]
                IN  /\ Len(queries') = Len(queries) + 1
                    /\ IF id \in DOMAIN sessions
                       THEN /\ q.session = sessions[id]
                            /\ q.resume =
                                  IF sessionObjects[sessions[id]].sdkSessionId \in {"sdk-1", "sdk-2"}
                                  THEN sessionObjects[sessions[id]].sdkSessionId
                                  ELSE Undefined
                       ELSE /\ q.session = Len(sessionObjects) + 1
                            /\ q.resume = Undefined
                            /\ sessions'[id] = q.session
       /\ \A q \in 1..Len(queries) :
            (QueryReturns(q, FALSE) \/ QueryReturns(q, TRUE)) =>
                /\ Len(replied') = 1
                /\ replied'[1].success => replied'[1].sessionId = sessionObjects[queries[q].session].id
    ]_vars

\* C21's case: the first query of a session saw the init message of SDK
\* session sdk-1 and returned; the next query on that session has called the
\* SDK with resume = sdk-1
C21_Witness ==
    /\ Len(queries) = 2
    /\ queries[1] = [session |-> 1, resume |-> Undefined, state |-> "done"]
    /\ queries[2] = [session |-> 1, resume |-> "sdk-1", state |-> "running"]
    /\ DOMAIN sessions = {sessionObjects[1].id}

\* C22 (session expiry after one hour of inactivity): a sweep deletes exactly
\* the sessions whose lastActivity is more than one hour before it and leaves
\* the others as they are; only a sweep deletes a session here; getSession
\* sets the lastActivity of the session it returns to the present time; once
\* the sweep due at an instant has run, no session in the Map has been idle
\* for more than an hour.
C22_SessionExpiry ==
    [][/\ Sweep =>
            /\ DOMAIN sessions' =
                   {k \in DOMAIN sessions :
                        now - sessionObjects[sessions[k]].lastActivity <= ONE_HOUR_MS}
            /\ \A k \in DOMAIN sessions' : sessions'[k] = sessions[k]
            /\ sessionObjects' = sessionObjects
       /\ ~Sweep => \A k \in DOMAIN sessions : k \in DOMAIN sessions'
       /\ Len(queries') = Len(queries) + 1 =>
            LET q == queries'[Len(queries')]
            IN  /\ sessionObjects'[q.session].lastActivity = now
                /\ sessionObjects'[q.session].id \in DOMAIN sessions'
       /\ swept' =>
            \A k \in DOMAIN sessions' :
                now' - sessionObjects'[sessions'[k]].lastActivity <= ONE_HOUR_MS
       /\ now' # now => (now' = now + SWEEP_INTERVAL_MS /\ swept /\ ~swept')
    ]_vars

\* C22's case: a session last accessed an hour and five minutes ago is gone
\* after the sweep, which has kept a session accessed within the last hour
C22_Witness ==
    /\ swept
    /\ Len(sessionObjects) = 2
    /\ now - sessionObjects[1].lastActivity = ONE_HOUR_MS + SWEEP_INTERVAL_MS
    /\ sessionObjects[1].id \notin DOMAIN sessions
    /\ sessionObjects[2].id \in DOMAIN sessions
    /\ now - sessionObjects[2].lastActivity = ONE_HOUR_MS

C24_ClearingSession ==
    [][/\ \A sessionId \in SuppliedIds :
            ClearSession(sessionId) =>
                /\ Len(replied') = 1
                /\ replied'[1].route = "POST /session/clear"
                /\ sessionObjects' = sessionObjects /\ queries' = queries
                /\ IF sessionId \in {Undefined, ""}
                   THEN replied'[1].status = 400 /\ ~replied'[1].success /\ sessions' = sessions
                   ELSE IF sessionId \in DOMAIN sessions
                   THEN /\ replied'[1].status = 200 /\ replied'[1].success
                        /\ DOMAIN sessions' = DOMAIN sessions \ {sessionId}
                        /\ \A k \in DOMAIN sessions' : sessions'[k] = sessions[k]
                   ELSE replied'[1].status = 404 /\ ~replied'[1].success /\ sessions' = sessions
       /\ \A sessionId \in SuppliedIds \ {Undefined, ""} :
            SessionInfo(sessionId) =>
                /\ Len(replied') = 1
                /\ replied'[1].status = IF sessionId \in DOMAIN sessions THEN 200 ELSE 404
                /\ UNCHANGED <<sessions, sessionObjects, queries>>
       /\ \A sessionId \in SuppliedIds \ {Undefined, ""} : \A random \in Randoms :
            (sessionId \notin DOMAIN sessions
             /\ PostQuery("how many users", sessionId, FALSE, random)) =>
                /\ queries'[Len(queries')].resume = Undefined
                /\ queries'[Len(queries')].session = Len(sessionObjects) + 1
                /\ sessions'[sessionId] = Len(sessionObjects) + 1
    ]_vars

\* C24's case: a session that had stored an SDK session was cleared, and the
\* next query naming its id runs on a new session without resume
C24_Witness ==
    /\ Len(sessionObjects) = 2
    /\ sessionObjects[1].id = sessionObjects[2].id
    /\ sessionObjects[1].sdkSessionId = "sdk-1"
    /\ Len(queries) = 2
    /\ queries[2] = [session |-> 2, resume |-> Undefined, state |-> "running"]
    /\ sessions[sessionObjects[2].id] = 2

\* C25 (executeSQL surfaces query failure): executeSQL never returns a
\* normal result for a query the server reported as failed: a call of
\* executeSQL that returns does not return a tool result flagged isError.
C25_ExecuteSQLSurfacesFailure ==
    \A i \in 1..Len(completed) :
        (completed[i].method = "executeSQL" /\ completed[i].state = "returned") =>
            ~IsError(completed[i].value)

\* C26 (validation precedes execution): a processNaturalLanguageQuery call
\* whose conversion carries a SQL query has no tools/call request before
\* validateSQL has returned for it: its request is made in the step in which
\* validateSQL returns to it, and is the one request that step writes.
C26_ValidationPrecedesExecution ==
    [][\A k \in 1..Len(service'.calls) :
          LET call == service'.calls[k]
          IN  (call.method = "processNaturalLanguageQuery" /\ Truthy(call.query)) =>
                  /\ call.awaiting # 0 => call.validated
                  /\ (call.awaiting # 0 /\ (k > Len(service.calls) \/ service.calls[k].awaiting = 0)) =>
                        /\ k <= Len(service.calls)
                        /\ service.calls[k].pc = "validateSQL"
                        /\ ~service.calls[k].validated
                        /\ Len(written') = 1
                        /\ written'[1].method = "tools/call"
                        /\ requests'[call.awaiting].id = written'[1].id
                  /\ (written' # <<>> /\ k <= Len(service.calls)
                      /\ service.calls[k].pc \in {"convertToSQL", "called"}) =>
                        FALSE
    ]_vars

\* C26's case: validateSQL has just returned for a conversion with a SQL
\* query, and the tools/call for it has been written to the server
C26_Witness ==
    /\ Len(service.calls) = 2
    /\ service.calls[2].method = "processNaturalLanguageQuery"
    /\ service.calls[2].query = "SELECT 1"
    /\ service.calls[2].validated
    /\ service.calls[2].pc = "callTool"
    /\ Len(written) = 1
    /\ written[1].method = "tools/call"
    /\ ~processes[written[1].proc].exited

\* C30 (the service refuses work after a disconnect): once the client has
\* emitted 'disconnected' after initialize() was called (there is one
\* initialize() call, so none has started since), a call of
\* processNaturalLanguageQuery, executeSQL, listTables, describeTable or
\* listDatabases throws 'Database service not connected' and writes no request.
C30_RefusesWorkAfterDisconnect ==
    [][(Len(service'.calls) = Len(service.calls) + 1 /\ service.disconnected) =>
          LET call == service'.calls[Len(service'.calls)]
          IN  call.method \in Methods =>
                  /\ call.pc = "threw"
                  /\ call.value = "Database service not connected"
                  /\ written' = <<>>
    ]_vars

====
